---- MODULE Spec2Model ----
(***************************************************************************)
(* Model of the essay evaluation pipeline of src/Tutor.py.                 *)
(*                                                                         *)
(* Text is modelled as a sequence of lines (the result of split('\n')),    *)
(* each line a sequence of tokens: the labels "Nota", "Justificativa",     *)
(* "ERRO", ... are one token each, and ":", " ", the quote and the digits  *)
(* are single characters.  The generation service (client.messages.create) *)
(* is the environment: every request either raises or returns a reply      *)
(* drawn from a bounded set of texts.                                      *)
(***************************************************************************)
EXTENDS Integers, Sequences, FiniteSets, TLC

VARIABLES
    fn,          \* which function of the program has run ("idle" before)
    entrada,     \* the input handed to that function
    saida,       \* what it returned (or the exception it raised)
    comp,        \* processar_redacao_completa: position of the loop over COMPETENCIES
    fase,        \* ... and the point reached inside the iteration
    resultados,  \* ... its dict resultados
    em_curso,    \* ... the analysis of the criterion being processed
    pedidos,     \* the generation requests issued so far, in order
    excecoes     \* per criterion, where an exception was raised while processing it

fvars == <<fn, entrada, saida>>
pvars == <<comp, fase, resultados, em_curso, pedidos, excecoes>>
vars == <<fn, entrada, saida, comp, fase, resultados, em_curso, pedidos, excecoes>>

\* the variables of the part of the program a specification does not run
FuncaoParada == fn = "idle" /\ entrada = <<>> /\ saida = <<>>
PipelineParado ==
    /\ comp = 0 /\ fase = "parado" /\ resultados = <<>>
    /\ em_curso = <<>> /\ pedidos = <<>> /\ excecoes = <<>>

(***************************************************************************)
(* Bounds of the model.                                                    *)
(***************************************************************************)
MaxLinhas == 3

(***************************************************************************)
(* String primitives of Python, on token sequences.                        *)
(***************************************************************************)
Digitos == <<"0", "1", "2", "3", "4", "5", "6", "7", "8", "9">>

EhDigito(c) == \E i \in 1..Len(Digitos) : Digitos[i] = c

ValorDigito(c) == (CHOOSE i \in 1..Len(Digitos) : Digitos[i] = c) - 1

RECURSIVE LStrip(_)
LStrip(s) == IF s # <<>> /\ Head(s) = " " THEN LStrip(Tail(s)) ELSE s

RECURSIVE RStrip(_)
RStrip(s) ==
    IF s # <<>> /\ s[Len(s)] = " " THEN RStrip(SubSeq(s, 1, Len(s) - 1)) ELSE s

\* str.strip()
Strip(s) == RStrip(LStrip(s))

\* str.startswith(p)
StartsWith(s, p) == Len(s) >= Len(p) /\ SubSeq(s, 1, Len(p)) = p

\* position of the first occurrence of token c in s, 0 when absent
Find(s, c) ==
    IF \E i \in 1..Len(s) : s[i] = c
    THEN CHOOSE i \in 1..Len(s) : s[i] = c /\ \A j \in 1..(i - 1) : s[j] # c
    ELSE 0

\* str.split(':')[1]: the text between the first and the second colon
\* (to the end of the line when there is no second colon)
SplitColon1(s) ==
    LET a == Find(s, ":")
        rest == SubSeq(s, a + 1, Len(s))
        b == Find(rest, ":")
    IN  IF b = 0 THEN rest ELSE SubSeq(rest, 1, b - 1)

RECURSIVE ValorDigitos(_)
ValorDigitos(s) ==
    IF s = <<>> THEN 0
    ELSE 10 * ValorDigitos(SubSeq(s, 1, Len(s) - 1)) + ValorDigito(s[Len(s)])

SoDigitos(s) == s # <<>> /\ \A i \in 1..Len(s) : EhDigito(s[i])

\* int(s): a record [ok, v]; ok = FALSE stands for ValueError
ParseInt(s) ==
    LET t == Strip(s)
    IN  IF t # <<>> /\ Head(t) \in {"-", "+"} /\ SoDigitos(Tail(t))
        THEN [ok |-> TRUE,
              v |-> IF Head(t) = "-" THEN 0 - ValorDigitos(Tail(t))
                    ELSE ValorDigitos(Tail(t))]
        ELSE IF SoDigitos(t) THEN [ok |-> TRUE, v |-> ValorDigitos(t)]
        ELSE [ok |-> FALSE, v |-> 0]

\* ' '.join(partes)
RECURSIVE Join(_)
Join(partes) ==
    IF partes = <<>> THEN <<>>
    ELSE IF Len(partes) = 1 THEN partes[1]
    ELSE partes[1] \o <<" ">> \o Join(Tail(partes))

(***************************************************************************)
(* extrair_nota_e_justificativa                                            *)
(***************************************************************************)
RotuloNota == <<"Nota", ":">>
RotuloJustificativa == <<"Justificativa", ":">>

\* variant: a score line whose token is no integer is skipped
PassoLinha_IgnoraValueError(st, linhaCrua) ==
    LET linha == Strip(linhaCrua)
    IN  IF StartsWith(linha, RotuloNota)
        THEN LET p == ParseInt(SplitColon1(linha))
             IN  IF p.ok THEN [st EXCEPT !.tem_nota = TRUE, !.nota = p.v] ELSE st
        ELSE IF StartsWith(linha, RotuloJustificativa)
        THEN [st EXCEPT !.lendo = TRUE]
        ELSE IF st.lendo /\ linha # <<>>
        THEN [st EXCEPT !.justificativa = Append(@, linha)]
        ELSE st

\* one iteration of the loop over the lines; st = [erro, tem_nota, nota,
\* justificativa, lendo_justificativa]
PassoLinha(st, linhaCrua) ==
    LET linha == Strip(linhaCrua)
    IN  IF st.erro THEN st
        ELSE IF StartsWith(linha, RotuloNota)
        THEN LET p == ParseInt(SplitColon1(linha))
             IN  IF p.ok THEN [st EXCEPT !.tem_nota = TRUE, !.nota = p.v]
                 ELSE [st EXCEPT !.erro = TRUE]
        ELSE IF StartsWith(linha, RotuloJustificativa)
        THEN [st EXCEPT !.lendo = TRUE]
        ELSE IF st.lendo /\ linha # <<>>
        THEN [st EXCEPT !.justificativa = Append(@, linha)]
        ELSE st

RECURSIVE LacoLinhas(_, _)
LacoLinhas(st, linhas) ==
    IF linhas = <<>> THEN st
    ELSE LacoLinhas(PassoLinha(st, Head(linhas)), Tail(linhas))

extrair_nota_e_justificativa(resposta) ==
    LET st == LacoLinhas([erro |-> FALSE, tem_nota |-> FALSE, nota |-> 0,
                          justificativa |-> <<>>, lendo |-> FALSE], resposta)
    IN  IF st.erro THEN [tipo |-> "ValueError", msg |-> "Formato de nota inválido"]
        ELSE IF ~st.tem_nota
        THEN [tipo |-> "ValueError", msg |-> "Nota não encontrada na resposta"]
        ELSE [tipo |-> "ok", nota |-> st.nota,
              justificativa |-> Join(st.justificativa)]

(***************************************************************************)
(* Specification of the score parser on bounded replies.                   *)
(***************************************************************************)
LinhasNota ==
    { <<"Nota", ":", " ", "1", "6", "0">>,
      <<" ", "Nota", ":", "-", "4", "0", " ">>,
      <<"Nota", ":", " ", "8", "0", ":", "Z">>,
      <<"Nota", ":", "Z">>,
      <<"Nota", ":">>,
      <<"Nota", " ", "8", "0">>,
      <<"Justificativa", ":", " ", "X">>,
      <<"Justificativa", ":">>,
      <<"Y">>,
      <<"Z", " ", "Z">>,
      <<" ">>,
      <<>> }

RespostasNota == UNION { [1..n -> LinhasNota] : n \in 0..MaxLinhas }

InitNota == fn = "idle" /\ entrada \in RespostasNota /\ saida = <<>> /\ PipelineParado

ExtrairNota ==
    /\ fn = "idle"
    /\ fn' = "extrair_nota_e_justificativa"
    /\ saida' = extrair_nota_e_justificativa(entrada)
    /\ UNCHANGED <<entrada, pvars>>

NextNota == ExtrairNota

SpecNota == InitNota /\ [][NextNota]_vars
(***************************************************************************)
(* C8: extrair_nota_e_justificativa returns as justification the remainder *)
(* of the 'Justificativa:' line followed by all subsequent non-empty       *)
(* lines, joined by single spaces ("Nota: 160\nJustificativa: X\nY" gives  *)
(* score 160 and justification "X Y").                                     *)
(***************************************************************************)
PrimeiraJustificativa(linhas) ==
    IF \E i \in 1..Len(linhas) : StartsWith(Strip(linhas[i]), RotuloJustificativa)
    THEN CHOOSE i \in 1..Len(linhas) :
            /\ StartsWith(Strip(linhas[i]), RotuloJustificativa)
            /\ \A j \in 1..(i - 1) : ~StartsWith(Strip(linhas[j]), RotuloJustificativa)
    ELSE 0

NaoVazia(l) == l # <<>>

JustificativaDescrita(linhas) ==
    LET i == PrimeiraJustificativa(linhas)
        resto == Strip(SubSeq(Strip(linhas[i]), Len(RotuloJustificativa) + 1,
                              Len(Strip(linhas[i]))))
        seguintes == [k \in 1..(Len(linhas) - i) |-> Strip(linhas[i + k])]
    IN  IF i = 0 THEN <<>>
        ELSE Join(SelectSeq(<<resto>> \o seguintes, NaoVazia))

\* the reply has the shape the claim is about: the score line comes first and
\* no label line follows the justification label
FormatoPedido(linhas) ==
    LET i == PrimeiraJustificativa(linhas)
    IN  /\ i > 0
        /\ \A k \in (i + 1)..Len(linhas) :
               /\ ~StartsWith(Strip(linhas[k]), RotuloNota)
               /\ ~StartsWith(Strip(linhas[k]), RotuloJustificativa)

C8_JustificativaIncluiRestoDaLinha ==
    (/\ fn = "extrair_nota_e_justificativa"
     /\ saida.tipo = "ok"
     /\ FormatoPedido(entrada))
        => saida.justificativa = JustificativaDescrita(entrada)

(***************************************************************************)
(* C9: extrair_nota_e_justificativa fails with an error, returning no      *)
(* partial result, whenever no line starts with the score label or the     *)
(* token after the label is not an integer; it returns a result only when  *)
(* a score line with an integer exists.                                    *)
(***************************************************************************)
LinhasDeNota(linhas) ==
    { i \in 1..Len(linhas) : StartsWith(Strip(linhas[i]), RotuloNota) }

TokenDaNota(linha) == ParseInt(SplitColon1(Strip(linha)))

C9_FalhaSemNotaInteira ==
    fn = "extrair_nota_e_justificativa" =>
        /\ LinhasDeNota(entrada) = {} => saida.tipo = "ValueError"
        /\ (\E i \in LinhasDeNota(entrada) : ~TokenDaNota(entrada[i]).ok)
               => saida.tipo = "ValueError"
        /\ saida.tipo = "ValueError" => DOMAIN saida = {"tipo", "msg"}
        /\ saida.tipo = "ok" =>
               \E i \in LinhasDeNota(entrada) :
                   TokenDaNota(entrada[i]).ok /\ saida.nota = TokenDaNota(entrada[i]).v

C9_Witness ==
    /\ fn = "extrair_nota_e_justificativa"
    /\ \E i, j \in LinhasDeNota(entrada) :
           TokenDaNota(entrada[i]).ok /\ ~TokenDaNota(entrada[j]).ok /\ i < j
    /\ saida.tipo = "ValueError"
(***************************************************************************)
(* extrair_erros_do_resultado (the definition in force, the second one)    *)
(***************************************************************************)
\* str.lower() on the tokens the replies use
Lower(c) ==
    CASE c = "Descrição" -> "descrição"
      [] c = "DESCRIÇÃO" -> "descrição"
      [] c = "Trecho" -> "trecho"
      [] c = "TRECHO" -> "trecho"
      [] c = "Explicação" -> "explicação"
      [] c = "Sugestão" -> "sugestão"
      [] c = "Sintaxe" -> "sintaxe"
      [] c = "Crase" -> "crase"
      [] c = "Estilo" -> "estilo"
      [] c = "Regência" -> "regência"
      [] OTHER -> c

LowerSeq(s) == [i \in 1..Len(s) |-> Lower(s[i])]

Aspas == "\""

RECURSIVE LStripAspas(_)
LStripAspas(s) == IF s # <<>> /\ Head(s) = Aspas THEN LStripAspas(Tail(s)) ELSE s

RECURSIVE RStripAspas(_)
RStripAspas(s) ==
    IF s # <<>> /\ s[Len(s)] = Aspas
    THEN RStripAspas(SubSeq(s, 1, Len(s) - 1)) ELSE s

\* variant: one quote at each end, when both ends have one
StripAspas_UmPar(s) ==
    IF Len(s) >= 2 /\ Head(s) = Aspas /\ s[Len(s)] = Aspas
    THEN SubSeq(s, 2, Len(s) - 1)
    ELSE s
\* str.strip('"')
StripAspas(s) == RStripAspas(LStripAspas(s))

\* the text of a token ends with the characters ERRO
TerminaEmERRO(c) == c \in {"ERRO", "FIM_ERRO"}

\* 'ERRO\n' matches at the end of line i, reading from token position de
AbreBloco(texto, i, de) ==
    /\ i < Len(texto)
    /\ Len(texto[i]) >= de
    /\ TerminaEmERRO(texto[i][Len(texto[i])])

\* '\nFIM_ERRO' matches at the start of line j
FechaBloco(texto, j) == texto[j] # <<>> /\ Head(texto[j]) = "FIM_ERRO"

\* the matches of ERRO\n(.*?)\nFIM_ERRO from line i, token position de, on:
\* a sequence of [abre, fecha], the body being the lines abre+1 .. fecha-1
RECURSIVE FindAllBlocos(_, _, _)
FindAllBlocos(texto, i, de) ==
    IF i > Len(texto) THEN <<>>
    ELSE IF AbreBloco(texto, i, de)
            /\ \E j \in (i + 2)..Len(texto) : FechaBloco(texto, j)
    THEN LET j == CHOOSE j \in (i + 2)..Len(texto) :
                      /\ FechaBloco(texto, j)
                      /\ \A k \in (i + 2)..(j - 1) : ~FechaBloco(texto, k)
         IN  <<[abre |-> i, fecha |-> j]>> \o FindAllBlocos(texto, j, 2)
    ELSE FindAllBlocos(texto, i + 1, 1)

\* erro[chave] = valor
Put(d, k, v) == [x \in (DOMAIN d) \cup {k} |-> IF x = k THEN v ELSE d[x]]

DictVazio == [x \in {} |-> <<>>]

K_trecho == <<"trecho">>
K_descricao == <<"descrição">>

\* the body of the loop over the lines of one match
PassoCampo(erro, linha) ==
    LET a == Find(linha, ":")
        chave == LowerSeq(Strip(SubSeq(linha, 1, a - 1)))
        valor == Strip(SubSeq(linha, a + 1, Len(linha)))
    IN  IF a = 0 THEN erro
        ELSE Put(erro, chave, IF chave = K_trecho THEN StripAspas(valor) ELSE valor)

RECURSIVE LacoCampos(_, _)
LacoCampos(erro, linhas) ==
    IF linhas = <<>> THEN erro
    ELSE LacoCampos(PassoCampo(erro, Head(linhas)), Tail(linhas))

ErroDoBloco(texto, m) == LacoCampos(DictVazio, SubSeq(texto, m.abre + 1, m.fecha - 1))

\* variant: the excerpt alone is enough
Aceito_SoTrecho(erro) == K_trecho \in DOMAIN erro

Aceito(erro) == K_descricao \in DOMAIN erro /\ K_trecho \in DOMAIN erro

RECURSIVE LacoMatches(_, _)
LacoMatches(texto, matches) ==
    IF matches = <<>> THEN <<>>
    ELSE LET erro == ErroDoBloco(texto, Head(matches))
         IN  (IF Aceito(erro) THEN <<erro>> ELSE <<>>)
                 \o LacoMatches(texto, Tail(matches))

extrair_erros_do_resultado(resultado) ==
    LacoMatches(resultado, FindAllBlocos(resultado, 1, 1))

(***************************************************************************)
(* Specification of the block parser on bounded texts.                     *)
(***************************************************************************)
MaxPedacos == 5

\* the pieces a bounded reply is made of: one or two lines each
PedacosErro ==
    { << <<"ERRO">> >>,
      << <<"FIM_ERRO">> >>,
      << <<"FIM_ERRO", " ", "ERRO">> >>,
      << <<"Descrição", ":", " ", "D">>, <<"Trecho", ":", " ", Aspas, "T", Aspas>> >>,
      << <<"TRECHO", " ", ":", "U">>, <<" ", "DESCRIÇÃO", ":", "D", ":", "E">> >>,
      << <<"Descrição", ":", "D">> >>,
      << <<"Trecho", ":", "T">> >>,
      << <<"Trecho", " ", "T">>, <<>> >> }

RECURSIVE Flatten(_)
Flatten(ps) == IF ps = <<>> THEN <<>> ELSE Head(ps) \o Flatten(Tail(ps))

TextosErro ==
    { Flatten(ps) : ps \in UNION { [1..n -> PedacosErro] : n \in 0..MaxPedacos } }

InitErros == fn = "idle" /\ entrada \in TextosErro /\ saida = <<>> /\ PipelineParado

ExtrairErros ==
    /\ fn = "idle"
    /\ fn' = "extrair_erros_do_resultado"
    /\ saida' = extrair_erros_do_resultado(entrada)
    /\ UNCHANGED <<entrada, pvars>>

NextErros == ExtrairErros

SpecErros == InitErros /\ [][NextErros]_vars
(***************************************************************************)
(* C10: for any input text, extrair_erros_do_resultado returns, in order   *)
(* of appearance, exactly one record for each ERRO...FIM_ERRO block that   *)
(* contains both a description field and an excerpt field; blocks lacking  *)
(* either field contribute nothing and never cause an error.               *)
(***************************************************************************)
\* the lines of block m that are a field with key k
LinhasDoCampo(texto, m, k) ==
    { i \in (m.abre + 1)..(m.fecha - 1) :
        /\ \E a \in 1..Len(texto[i]) : texto[i][a] = ":"
        /\ LowerSeq(Strip(SubSeq(texto[i], 1, Find(texto[i], ":") - 1))) = k }

TemCampo(texto, m, k) == LinhasDoCampo(texto, m, k) # {}

Max(S) == CHOOSE x \in S : \A y \in S : y <= x

\* the value of field k in block m: what follows the colon on its last line
ValorDoCampo(texto, m, k) ==
    LET i == Max(LinhasDoCampo(texto, m, k))
    IN  Strip(SubSeq(texto[i], Find(texto[i], ":") + 1, Len(texto[i])))

BlocosCompletos(texto) ==
    LET Completo(m) == TemCampo(texto, m, K_descricao) /\ TemCampo(texto, m, K_trecho)
    IN  SelectSeq(FindAllBlocos(texto, 1, 1), Completo)

C10_UmRegistroPorBlocoCompleto ==
    fn = "extrair_erros_do_resultado" =>
        LET bs == BlocosCompletos(entrada)
        IN  /\ Len(saida) = Len(bs)
            /\ \A n \in 1..Len(bs) :
                  /\ saida[n][K_descricao] = ValorDoCampo(entrada, bs[n], K_descricao)
                  /\ StripAspas(ValorDoCampo(entrada, bs[n], K_trecho)) = saida[n][K_trecho]

C10_Witness ==
    /\ fn = "extrair_erros_do_resultado"
    /\ Len(FindAllBlocos(entrada, 1, 1)) = 2
    /\ Len(saida) = 2
    /\ saida[1][K_trecho] # saida[2][K_trecho]

C10_WitnessDescartado ==
    /\ fn = "extrair_erros_do_resultado"
    /\ Len(FindAllBlocos(entrada, 1, 1)) = 2
    /\ Len(saida) = 1
(***************************************************************************)
(* analisar_competency2..5: the narrative is the reply with the blocks     *)
(* removed by re.sub(r'ERRO\n.*?FIM_ERRO', '', ...) and stripped.          *)
(***************************************************************************)
NL == "\n"

\* '\n'.join(linhas): the text as one string
RECURSIVE ToFlat(_)
ToFlat(texto) ==
    IF texto = <<>> THEN <<>>
    ELSE IF Len(texto) = 1 THEN texto[1]
    ELSE texto[1] \o <<NL>> \o ToFlat(Tail(texto))

\* re.sub(r'ERRO\n.*?FIM_ERRO', '', s, flags=re.DOTALL); a match that starts
\* inside the token FIM_ERRO leaves its first characters, FIM_, behind
RECURSIVE SubBlocos(_)
SubBlocos(s) ==
    IF s = <<>> THEN <<>>
    ELSE IF /\ Len(s) >= 2
            /\ TerminaEmERRO(s[1])
            /\ s[2] = NL
            /\ \E q \in 3..Len(s) : s[q] = "FIM_ERRO"
    THEN LET q == CHOOSE q \in 3..Len(s) :
                      s[q] = "FIM_ERRO" /\ \A k \in 3..(q - 1) : s[k] # "FIM_ERRO"
         IN  (IF s[1] = "FIM_ERRO" THEN <<"FIM_">> ELSE <<>>)
                 \o SubBlocos(SubSeq(s, q + 1, Len(s)))
    ELSE <<s[1]>> \o SubBlocos(Tail(s))

Branco(c) == c \in {" ", NL}

RECURSIVE LStripWS(_)
LStripWS(s) == IF s # <<>> /\ Branco(Head(s)) THEN LStripWS(Tail(s)) ELSE s

RECURSIVE RStripWS(_)
RStripWS(s) ==
    IF s # <<>> /\ Branco(s[Len(s)]) THEN RStripWS(SubSeq(s, 1, Len(s) - 1)) ELSE s

\* analise_geral.strip()
analise_geral(resposta) == RStripWS(LStripWS(SubBlocos(ToFlat(resposta))))

(***************************************************************************)
(* revisar_erros_competency2..5: the body of the loop, for one record.     *)
(* extrair_revisao_do_resultado is called but defined nowhere in the       *)
(* repository: a reply is taken to carry the fields it parses to, and a    *)
(* malformed reply makes it raise.                                         *)
(***************************************************************************)
extrair_revisao_do_resultado(resposta) ==
    IF resposta.formada THEN [tipo |-> "ok", revisao |-> resposta.campos]
    ELSE [tipo |-> "excecao"]

K_explicacao == <<"explicação">>
K_sugestao == <<"sugestão">>
K_consideracoes == <<"considerações_enem">>

\* what one iteration appends to erros_revisados, whether it raised (the
\* except clause logs and goes on with the next record), and the object
\* erro_revisado as the iteration leaves it, when erro.copy() was reached
RevisarUmN(erro, pedido) ==
    IF pedido.falha THEN [excecao |-> TRUE, novos |-> <<>>, copia |-> <<>>]
    ELSE LET p == extrair_revisao_do_resultado(pedido.resposta)
         IN  IF p.tipo # "ok" THEN [excecao |-> TRUE, novos |-> <<>>, copia |-> <<>>]
             ELSE IF ~("Erro Confirmado" \in DOMAIN p.revisao
                        /\ p.revisao["Erro Confirmado"] = <<"Sim">>)
             THEN [excecao |-> FALSE, novos |-> <<>>, copia |-> <<>>]
             ELSE LET e1 == IF "Explicação Revisada" \in DOMAIN p.revisao
                            THEN Put(erro, K_explicacao, p.revisao["Explicação Revisada"])
                            ELSE erro
                      e2 == IF "Sugestão Revisada" \in DOMAIN p.revisao
                            THEN Put(e1, K_sugestao, p.revisao["Sugestão Revisada"])
                            ELSE e1
                  IN  IF "Considerações ENEM" \notin DOMAIN p.revisao
                      THEN [excecao |-> TRUE, novos |-> <<>>, copia |-> <<e2>>]
                      ELSE LET e3 == Put(e2, K_consideracoes,
                                         p.revisao["Considerações ENEM"])
                           IN  [excecao |-> FALSE, novos |-> <<e3>>, copia |-> <<e3>>]

(***************************************************************************)
(* atribuir_nota_competency2..5                                            *)
(***************************************************************************)
NotasValidas == {0, 40, 80, 120, 160, 200}

\* variant: the quotient rounded down
Round40_ParaBaixo(n) == n \div 40
\* Python's round(n / 40): to the nearest integer, a tie to the even one
Round40(n) ==
    LET q == n \div 40
        r == n % 40
    IN  IF r < 20 THEN q
        ELSE IF r > 20 THEN q + 1
        ELSE IF q % 2 = 0 THEN q ELSE q + 1

Min2(a, b) == IF a <= b THEN a ELSE b
Max2(a, b) == IF a >= b THEN a ELSE b

\* 40 * round(nota / 40), the limits forgotten
AjustarNota_SemLimites(nota) == 40 * Round40(nota)

\* max(0, min(200, 40 * round(nota / 40)))
AjustarNota(nota) == Max2(0, Min2(200, 40 * Round40(nota)))

NotaAjustadaProximo == <<NL, "Nota ajustada para o valor válido mais próximo.">>
ErroAoGerarNota == <<"Erro ao gerar nota e justificativa.">>

\* pedido = [falha |-> TRUE] when client.messages.create raises,
\* [falha |-> FALSE, resposta |-> text] otherwise
atribuir_nota_competencyN(pedido) ==
    IF pedido.falha THEN [nota |-> 0, justificativa |-> ErroAoGerarNota]
    ELSE LET resultado == extrair_nota_e_justificativa(pedido.resposta)
         IN  IF resultado.tipo # "ok"
             THEN [nota |-> 0, justificativa |-> ErroAoGerarNota]
             ELSE IF resultado.nota \notin NotasValidas
             THEN [nota |-> AjustarNota(resultado.nota),
                   justificativa |-> resultado.justificativa \o NotaAjustadaProximo]
             ELSE [nota |-> resultado.nota, justificativa |-> resultado.justificativa]

\* whether the scoring raised inside its try block
NotaLevantou(pedido) ==
    pedido.falha \/ extrair_nota_e_justificativa(pedido.resposta).tipo # "ok"
(***************************************************************************)
(* processar_redacao_completa                                              *)
(***************************************************************************)
Competencias ==
    <<"competency1", "competency2", "competency3", "competency4", "competency5">>

NumCompetencias == Len(Competencias)

ErroNaAnalise == <<"Erro na análise">>
NaoFoiPossivel == <<"Não foi possível realizar a análise">>

ResultadosIniciais ==
    [analises_detalhadas |-> DictVazio,
     notas |-> DictVazio,
     nota_total |-> 0,
     erros_especificos |-> DictVazio,
     justificativas |-> DictVazio,
     total_erros_por_competencia |-> DictVazio,
     sugestoes_estilo |-> DictVazio]

\* the try block's last statements: the results of criterion c
RegistrarResultado(res, c, analise, resultado_nota, erros_revisados) ==
    [res EXCEPT !.analises_detalhadas = Put(@, c, analise),
                !.notas = Put(@, c, resultado_nota.nota),
                !.justificativas = Put(@, c, resultado_nota.justificativa),
                !.erros_especificos = Put(@, c, erros_revisados),
                !.total_erros_por_competencia = Put(@, c, Len(erros_revisados))]

RegistrarFalha_ApagaNotas(res, c) ==
    [res EXCEPT !.analises_detalhadas = Put(@, c, ErroNaAnalise),
                !.notas = Put(DictVazio, c, 0),
                !.justificativas = Put(@, c, NaoFoiPossivel),
                !.erros_especificos = Put(@, c, <<>>),
                !.total_erros_por_competencia = Put(@, c, 0)]

\* the except block: the placeholder of a failed criterion
RegistrarFalha(res, c) ==
    [res EXCEPT !.analises_detalhadas = Put(@, c, ErroNaAnalise),
                !.notas = Put(@, c, 0),
                !.justificativas = Put(@, c, NaoFoiPossivel),
                !.erros_especificos = Put(@, c, <<>>),
                !.total_erros_por_competencia = Put(@, c, 0)]

\* sum(set(...)): equal scores counted once
SomaNotas_Distintas(notas) ==
    LET vs == { notas[c] : c \in DOMAIN notas }
        RECURSIVE Soma(_)
        Soma(S) == IF S = {} THEN 0
                   ELSE LET x == CHOOSE x \in S : TRUE IN x + Soma(S \ {x})
    IN  Soma(vs)

RECURSIVE SomaNotas(_)
\* sum(resultados['notas'].values())
SomaNotas(notas) ==
    IF DOMAIN notas = {} THEN 0
    ELSE LET c == CHOOSE c \in DOMAIN notas : TRUE
         IN  notas[c] + SomaNotas([d \in (DOMAIN notas) \ {c} |-> notas[d]])

\* the loop goes on with the next criterion, or leaves
Proxima(c) ==
    /\ comp' = c + 1
    /\ fase' = IF c = NumCompetencias THEN "total" ELSE "analise"
    /\ em_curso' = <<>>

\* no except clause: the exception leaves processar_redacao_completa
Except_Propaga(c) ==
    /\ fase' = "excecao"
    /\ UNCHANGED <<comp, resultados, em_curso>>

\* except Exception: the exception raised for criterion c ends its iteration
Except(c) ==
    /\ resultados' = RegistrarFalha(resultados, Competencias[c])
    /\ Proxima(c)

Pedido(c, tipo, indice) == [comp |-> Competencias[c], tipo |-> tipo, indice |-> indice]

(* The replies of the generation service the pipeline is run against. *)
MaxMultiploNota == 3

RECURSIVE DigitosDe(_)
\* str(n) for n >= 0
DigitosDe(n) ==
    IF n < 10 THEN <<Digitos[n + 1]>>
    ELSE DigitosDe(n \div 10) \o <<Digitos[(n % 10) + 1]>>

NumeroDe(n) == IF n < 0 THEN <<"-">> \o DigitosDe(0 - n) ELSE DigitosDe(n)

RespostaNotaDe(n) ==
    << <<"Nota", ":", " ">> \o NumeroDe(n),
       <<"Justificativa", ":", " ", "J">>,
       <<"K">> >>

NotasDoServico == { 100 * k - 40 : k \in 0..MaxMultiploNota }

PedidosNota ==
    { [falha |-> TRUE, resposta |-> <<>>] }
        \cup { [falha |-> FALSE, resposta |-> RespostaNotaDe(n)] : n \in NotasDoServico }
        \cup { [falha |-> FALSE, resposta |-> << <<"Nota", " ", "J">> >>] }

RespostasAnalise ==
    { << <<"N">> >>,
      << <<"N">>, <<"ERRO">>, <<"Descrição", ":", " ", "D">>,
         <<"Trecho", ":", " ", Aspas, "T", Aspas>>, <<"FIM_ERRO">>, <<"M">> >> }

RevisaoSim ==
    [x \in {"Erro Confirmado", "Explicação Revisada", "Sugestão Revisada",
            "Considerações ENEM"} |->
        IF x = "Erro Confirmado" THEN <<"Sim">> ELSE <<"R">>]

RevisaoNao == [x \in {"Erro Confirmado"} |-> <<"Não">>]

PedidosRevisao ==
    { [falha |-> TRUE, resposta |-> <<>>],
      [falha |-> FALSE, resposta |-> [formada |-> TRUE, campos |-> RevisaoSim]],
      [falha |-> FALSE, resposta |-> [formada |-> TRUE, campos |-> RevisaoNao]] }

InitPipeline ==
    /\ FuncaoParada
    /\ comp = 1
    /\ fase = "analise"
    /\ resultados = ResultadosIniciais
    /\ em_curso = <<>>
    /\ pedidos = <<>>
    /\ excecoes = [c \in 1..NumCompetencias |-> {}]

Levantou(c, onde) == excecoes' = [excecoes EXCEPT ![c] = @ \cup {onde}]

\* competency1: analisar_competency1 is called but never defined (its body
\* follows a return statement of the first extrair_erros_do_resultado), so
\* the call raises NameError inside the try block
AnalisarCompetency1 ==
    /\ comp = 1 /\ fase = "analise"
    /\ Except(1)
    /\ Levantou(1, "analise")
    /\ UNCHANGED <<pedidos, fvars>>

\* analisar_competency2..5: the analysis request raises
AnalisarFalha ==
    /\ comp \in 2..NumCompetencias /\ fase = "analise"
    /\ pedidos' = Append(pedidos, Pedido(comp, "analise", 0))
    /\ Except(comp)
    /\ Levantou(comp, "analise")
    /\ UNCHANGED fvars

\* analisar_competency2..5: the analysis request returns; the narrative and
\* the parsed records, up to the first revision request
AnalisarResposta ==
    /\ comp \in 2..NumCompetencias /\ fase = "analise"
    /\ \E r \in RespostasAnalise :
          LET erros_identificados == extrair_erros_do_resultado(r)
          IN  /\ em_curso' = [analise |-> analise_geral(r),
                              identificados |-> erros_identificados,
                              revisados |-> <<>>]
              /\ fase' = IF erros_identificados = <<>> THEN "nota" ELSE "revisao"
    /\ pedidos' = Append(pedidos, Pedido(comp, "analise", 0))
    /\ UNCHANGED <<comp, resultados, excecoes, fvars>>

\* the iterations the loop over the records of criterion c has made
RevisoesPedidas(c) ==
    Cardinality({ i \in 1..Len(pedidos) :
                    pedidos[i].comp = Competencias[c] /\ pedidos[i].tipo = "revisao" })
\* revisar_erros_competency2..5: one iteration of the loop over the records
Revisar ==
    /\ fase = "revisao"
    /\ \E p \in PedidosRevisao :
          LET r == RevisarUmN(Head(em_curso.identificados), p)
              restantes == Tail(em_curso.identificados)
          IN  /\ em_curso' = [em_curso EXCEPT !.identificados = restantes,
                                              !.revisados = @ \o r.novos]
              /\ fase' = IF restantes = <<>> THEN "nota" ELSE "revisao"
              /\ excecoes' = IF r.excecao
                             THEN [excecoes EXCEPT ![comp] = @ \cup {"revisao"}]
                             ELSE excecoes
    /\ pedidos' = Append(pedidos, Pedido(comp, "revisao", RevisoesPedidas(comp) + 1))
    /\ UNCHANGED <<comp, resultados, fvars>>

\* atribuir_nota_competency2..5 and the recording of the criterion's results
AtribuirNota ==
    /\ fase = "nota"
    /\ \E p \in PedidosNota :
          /\ resultados' = RegistrarResultado(resultados, Competencias[comp],
                               em_curso.analise, atribuir_nota_competencyN(p),
                               em_curso.revisados)
          /\ excecoes' = IF NotaLevantou(p)
                         THEN [excecoes EXCEPT ![comp] = @ \cup {"nota"}]
                         ELSE excecoes
    /\ pedidos' = Append(pedidos, Pedido(comp, "nota", 0))
    /\ Proxima(comp)
    /\ UNCHANGED fvars

\* after the loop: the total, and the report is returned
Totalizar ==
    /\ fase = "total"
    /\ resultados' = [resultados EXCEPT !.nota_total = SomaNotas(resultados.notas)]
    /\ fase' = "fim"
    /\ UNCHANGED <<comp, em_curso, pedidos, excecoes, fvars>>

Next ==
    \/ AnalisarCompetency1
    \/ AnalisarFalha
    \/ AnalisarResposta
    \/ Revisar
    \/ AtribuirNota
    \/ Totalizar

Spec == InitPipeline /\ [][Next]_vars
(***************************************************************************)
(* Claims about processar_redacao_completa.                                *)
(***************************************************************************)
Registrado(c) == Competencias[c] \in DOMAIN resultados.notas

Marcador(res, c) ==
    /\ res.notas[Competencias[c]] = 0
    /\ res.analises_detalhadas[Competencias[c]] = ErroNaAnalise
    /\ res.justificativas[Competencias[c]] = NaoFoiPossivel
    /\ res.erros_especificos[Competencias[c]] = <<>>
    /\ res.total_erros_por_competencia[Competencias[c]] = 0

\* the entries of criterion k are the same in r1 and r2
MesmasEntradas(r1, r2, k) ==
    /\ k \in DOMAIN r2.notas
    /\ r2.notas[k] = r1.notas[k]
    /\ r2.analises_detalhadas[k] = r1.analises_detalhadas[k]
    /\ r2.justificativas[k] = r1.justificativas[k]
    /\ r2.erros_especificos[k] = r1.erros_especificos[k]
    /\ r2.total_erros_por_competencia[k] = r1.total_erros_por_competencia[k]

(* C1 (as stated): if anything raises while analysing or scoring one       *)
(* criterion, that criterion is recorded with score 0, narrative           *)
(* 'Erro na análise', the generic justification and an empty error list.   *)
C1_QualquerExcecaoMarcaFalha ==
    \A c \in 1..NumCompetencias :
        (Registrado(c) /\ excecoes[c] \cap {"analise", "nota"} # {})
            => Marcador(resultados, c)

(* C1 (amended): an exception of the analysis of a criterion reaches the   *)
(* except block of the loop, which records that criterion alone with       *)
(* score 0, narrative 'Erro na análise', the generic justification and an  *)
(* empty error list, and the loop goes on; an exception of the scoring is  *)
(* absorbed by the scoring function, which yields score 0 and its own      *)
(* generic justification while the narrative and the error list of the     *)
(* analysis are kept; in both cases nothing leaves the function and the    *)
(* entries already recorded for the other criteria stay as they are.       *)
C1_PassoIsolado ==
    /\ fase' # "excecao"
    /\ \A k \in DOMAIN resultados.notas : MesmasEntradas(resultados, resultados', k)
    /\ (fase = "analise" /\ "analise" \in excecoes'[comp])
          => /\ Marcador(resultados', comp)
             /\ comp' = comp + 1
             /\ DOMAIN resultados'.notas = DOMAIN resultados.notas \cup {Competencias[comp]}
    /\ (fase = "nota" /\ "nota" \in excecoes'[comp])
          => /\ resultados'.notas[Competencias[comp]] = 0
             /\ resultados'.justificativas[Competencias[comp]] = ErroAoGerarNota
             /\ resultados'.analises_detalhadas[Competencias[comp]] = em_curso.analise
             /\ resultados'.erros_especificos[Competencias[comp]] = em_curso.revisados
             /\ comp' = comp + 1

C1_FalhaIsoladaPorCriterio == [][C1_PassoIsolado]_vars

\* criterion 3 failed in its analysis after criterion 2 was scored above 0
\* with a confirmed record, and criterion 4 was scored after it
C1_Witness ==
    /\ Registrado(4)
    /\ "analise" \in excecoes[3] /\ Marcador(resultados, 3)
    /\ resultados.notas["competency2"] > 0
    /\ resultados.total_erros_por_competencia["competency2"] = 1
    /\ resultados.notas["competency4"] > 0

(* C2: after any pipeline run, whatever the service replied (any integer   *)
(* score, malformed text) and whichever requests failed, the score         *)
(* recorded for each of the five criteria is one of 0, 40, 80, 120, 160,   *)
(* 200.                                                                    *)
C2_NotasSaoDegraus ==
    \A k \in DOMAIN resultados.notas : resultados.notas[k] \in NotasValidas

TerminaCom(s, suf) ==
    Len(s) >= Len(suf) /\ SubSeq(s, Len(s) - Len(suf) + 1, Len(s)) = suf

\* the run is over and the service returned a value that is no rung for one
\* criterion (its justification carries the adjustment note), a malformed
\* reply or a failure for another
C2_Witness ==
    /\ fase = "fim"
    /\ \E k \in DOMAIN resultados.notas :
          /\ TerminaCom(resultados.justificativas[k], NotaAjustadaProximo)
          /\ resultados.notas[k] = 200
    /\ \E k \in DOMAIN resultados.notas :
          /\ TerminaCom(resultados.justificativas[k], NotaAjustadaProximo)
          /\ resultados.notas[k] = 0
    /\ \E c \in 1..NumCompetencias : "nota" \in excecoes[c]

(* C3: in every report returned by processar_redacao_completa, nota_total  *)
(* is the sum of the five per-criterion scores in notas, the criteria      *)
(* recorded as failed included (they contribute 0).                        *)
C3_TotalEhSoma ==
    fase = "fim" =>
        resultados.nota_total =
            resultados.notas["competency1"] + resultados.notas["competency2"]
            + resultados.notas["competency3"] + resultados.notas["competency4"]
            + resultados.notas["competency5"]

C3_Witness ==
    /\ fase = "fim"
    /\ Marcador(resultados, 3)
    /\ resultados.notas["competency2"] = 160
    /\ resultados.notas["competency4"] = 160
    /\ resultados.notas["competency5"] = 80
    /\ resultados.nota_total = 400

(* C4: for every subset of generation requests that fail, from none to all *)
(* of them, a pipeline run ends by returning a report whose score,         *)
(* narrative, justification, error-list and error-count maps each hold     *)
(* exactly the five criterion identifiers; the run never raises.           *)
TodasCompetencias == { Competencias[c] : c \in 1..NumCompetencias }

C4_SempreDevolveCincoCriterios ==
    /\ fase # "excecao"
    /\ fase = "fim" \/ ENABLED Next
    /\ fase = "fim" =>
          /\ DOMAIN resultados.notas = TodasCompetencias
          /\ DOMAIN resultados.analises_detalhadas = TodasCompetencias
          /\ DOMAIN resultados.justificativas = TodasCompetencias
          /\ DOMAIN resultados.erros_especificos = TodasCompetencias
          /\ DOMAIN resultados.total_erros_por_competencia = TodasCompetencias

\* every request of the run failed, and the report was returned
C4_Witness ==
    /\ fase = "fim"
    /\ \A c \in 1..NumCompetencias : Marcador(resultados, c)
    /\ Len(pedidos) = NumCompetencias - 1

\* no request of the run failed
C4_WitnessSemFalhas ==
    /\ fase = "fim"
    /\ \A c \in 2..NumCompetencias : excecoes[c] = {}
(***************************************************************************)
(* atribuir_nota_competency1                                               *)
(***************************************************************************)
\* dict.get(k, default)
Get(d, k, default) == IF k \in DOMAIN d THEN d[k] ELSE default

K_explicacao_sem_acento == <<"explicacao">>

\* the keywords of the count that occur inside the text of a token
PalavrasEm(c) ==
    CASE c = "sintaxe" -> {"sintax"}
      [] c = "estrutura" -> {"estrutura"}
      [] c = "ortografia" -> {"ortograf"}
      [] c = "escrita" -> {"escrita"}
      [] c = "concordância" -> {"concord"}
      [] c = "verbal" -> {"verbal"}
      [] c = "nominal" -> {"nominal"}
      [] c = "pontuação" -> {"pontu"}
      [] c = "crase" -> {"crase"}
      [] c = "coloquial" -> {"coloquial"}
      [] c = "registro" -> {"registro"}
      [] c = "informal" -> {"informal"}
      [] OTHER -> {}

\* any(p in desc for p in palavras)
Contem(desc, palavras) ==
    \E i \in 1..Len(desc) : PalavrasEm(desc[i]) \cap palavras # {}

\* desc = erro.get('explicacao', '').lower()
Desc(erro) == LowerSeq(Get(erro, K_explicacao_sem_acento, <<>>))

Quantos(erros, palavras) ==
    Cardinality({ i \in 1..Len(erros) : Contem(Desc(erros[i]), palavras) })

\* the loop that counts the errors by category
contagem_erros(erros) ==
    [sintaxe |-> Quantos(erros, {"sintax", "estrutura"}),
     ortografia |-> Quantos(erros, {"ortograf", "accent", "escrita"}),
     concordancia |-> Quantos(erros, {"concord", "verbal", "nominal"}),
     pontuacao |-> Quantos(erros, {"pontu"}),
     crase |-> Quantos(erros, {"crase"}),
     registro |-> Quantos(erros, {"coloquial", "registro", "informal"})]

total_erros(ct) ==
    ct.sintaxe + ct.ortografia + ct.concordancia + ct.pontuacao + ct.crase + ct.registro

\* variant: the 160 row without its bound on the register errors
nota_base_SemRegistro(ct) ==
    IF total_erros(ct) <= 3 /\ ct.sintaxe <= 1 /\ ct.registro = 0 /\ ct.ortografia <= 1
    THEN 200
    ELSE IF total_erros(ct) <= 5 /\ ct.sintaxe <= 2 THEN 160
    ELSE IF total_erros(ct) <= 8 /\ ct.sintaxe <= 3 THEN 120
    ELSE IF total_erros(ct) <= 12 THEN 80
    ELSE IF total_erros(ct) <= 15 THEN 40
    ELSE 0

\* variant: the rows of 80 and of 40 points exchanged
nota_base_LinhasTrocadas(ct) ==
    IF total_erros(ct) <= 3 /\ ct.sintaxe <= 1 /\ ct.registro = 0 /\ ct.ortografia <= 1
    THEN 200
    ELSE IF total_erros(ct) <= 5 /\ ct.sintaxe <= 2 /\ ct.registro <= 1 THEN 160
    ELSE IF total_erros(ct) <= 8 /\ ct.sintaxe <= 3 THEN 120
    ELSE IF total_erros(ct) <= 12 THEN 40
    ELSE IF total_erros(ct) <= 15 THEN 80
    ELSE 0
\* the decision table of the baseline
nota_base(ct) ==
    IF total_erros(ct) <= 3 /\ ct.sintaxe <= 1 /\ ct.registro = 0 /\ ct.ortografia <= 1
    THEN 200
    ELSE IF total_erros(ct) <= 5 /\ ct.sintaxe <= 2 /\ ct.registro <= 1 THEN 160
    ELSE IF total_erros(ct) <= 8 /\ ct.sintaxe <= 3 THEN 120
    ELSE IF total_erros(ct) <= 12 THEN 80
    ELSE IF total_erros(ct) <= 15 THEN 40
    ELSE 0

Abs(x) == IF x < 0 THEN 0 - x ELSE x

NotaAjustadaGravidade ==
    <<NL, "Nota ajustada devido à quantidade e gravidade dos erros identificados.">>
ErroAoGerarJustificativa ==
    <<"Erro ao gerar justificativa. Nota atribuída com base nos critérios objetivos.">>

\* a returned score that is no rung is replaced by the baseline
ValidarNota1(resultado, base) ==
    IF resultado.nota \notin NotasValidas
    THEN [nota |-> base, justificativa |-> resultado.justificativa \o NotaAjustadaProximo]
    ELSE [nota |-> resultado.nota, justificativa |-> resultado.justificativa]

\* variant: the lower of the two from 40 points on
ValidarDiscrepancia_Desde40(resultado, base) ==
    IF Abs(resultado.nota - base) >= 40
    THEN [nota |-> Min2(base, resultado.nota),
          justificativa |-> resultado.justificativa \o NotaAjustadaGravidade]
    ELSE resultado

\* more than 40 points away from the baseline: the lower of the two
ValidarDiscrepancia(resultado, base) ==
    IF Abs(resultado.nota - base) > 40
    THEN [nota |-> Min2(base, resultado.nota),
          justificativa |-> resultado.justificativa \o NotaAjustadaGravidade]
    ELSE resultado

\* variant: the except clause scores 0
ExceptNota1_Zero(base) == [nota |-> 0, justificativa |-> ErroAoGerarJustificativa]

\* the except clause: the baseline stands
ExceptNota1(base) == [nota |-> base, justificativa |-> ErroAoGerarJustificativa]

atribuir_nota_competency1(erros, pedido) ==
    LET base == nota_base(contagem_erros(erros))
        resultado == extrair_nota_e_justificativa(pedido.resposta)
    IN  IF pedido.falha \/ resultado.tipo # "ok"
        THEN ExceptNota1(base)
        ELSE ValidarDiscrepancia(ValidarNota1(resultado, base), base)

(***************************************************************************)
(* Specification of the five scoring functions on bounded inputs: the      *)
(* confirmed records, and what the score request does.                     *)
(***************************************************************************)
MaxErrosNota == 3
MargemNota == 50

Explicado(chave, desc) == [x \in {K_trecho, chave} |-> IF x = K_trecho THEN <<"T">> ELSE desc]

ErrosParaNota ==
    { Explicado(K_explicacao_sem_acento,
                <<"Sintaxe", "ortografia", "concordância", "pontuação", "Crase", "registro">>),
      Explicado(K_explicacao_sem_acento, <<"pontuação", "crase", "verbal">>),
      Explicado(K_explicacao_sem_acento, <<"pontuação">>),
      Explicado(K_explicacao_sem_acento, <<"estrutura">>),
      Explicado(K_explicacao_sem_acento, <<"escrita">>),
      Explicado(K_explicacao_sem_acento, <<"coloquial">>),
      Explicado(K_explicacao_sem_acento, <<"N">>),
      Explicado(K_explicacao, <<"sintaxe", "registro">>) }

ListasDeErros == UNION { [1..n -> ErrosParaNota] : n \in 0..MaxErrosNota }

NotasAmplas == (0 - MargemNota)..(200 + MargemNota)

\* a score request: it raises, or returns a text; nota_servico is the number
\* the service wrote in the reply (0 when it wrote none)
PedidoComNota(n) ==
    [falha |-> FALSE, resposta |-> RespostaNotaDe(n), nota_servico |-> n, formada |-> TRUE]

PedidosSemNota ==
    { [falha |-> TRUE, resposta |-> <<>>, nota_servico |-> 0, formada |-> FALSE],
      [falha |-> FALSE, resposta |-> << <<"Nota", " ", "J">> >>,
       nota_servico |-> 0, formada |-> FALSE],
      [falha |-> FALSE,
       resposta |-> << <<"Nota", ":", " ", "J">>, <<"Justificativa", ":">>, <<"K">> >>,
       nota_servico |-> 0, formada |-> FALSE] }

EntradasNota ==
    { [comp |-> 1, erros |-> es, pedido |-> p] :
        es \in ListasDeErros,
        p \in PedidosSemNota \cup { PedidoComNota(n) : n \in { m \in NotasAmplas : m % 10 = 0 } } }
    \cup
    { [comp |-> c, erros |-> es, pedido |-> p] :
        c \in 2..NumCompetencias,
        es \in { l \in ListasDeErros : Len(l) <= 1 /\ \A i \in 1..Len(l) : K_explicacao \in DOMAIN l[i] },
        p \in PedidosSemNota \cup { PedidoComNota(n) : n \in NotasAmplas } }

InitNotas == fn = "idle" /\ entrada \in EntradasNota /\ saida = <<>> /\ PipelineParado

AtribuirNota1 ==
    /\ fn = "idle" /\ entrada.comp = 1
    /\ fn' = "atribuir_nota_competency1"
    /\ saida' = atribuir_nota_competency1(entrada.erros, entrada.pedido)
    /\ UNCHANGED <<entrada, pvars>>

AtribuirNotaN ==
    /\ fn = "idle" /\ entrada.comp \in 2..NumCompetencias
    /\ fn' = "atribuir_nota_competencyN"
    /\ saida' = atribuir_nota_competencyN(entrada.pedido)
    /\ UNCHANGED <<entrada, pvars>>

NextNotas == AtribuirNota1 \/ AtribuirNotaN

SpecNotas == InitNotas /\ [][NextNotas]_vars
(***************************************************************************)
(* C5 (as stated).  In the scoring step of every one of the five criteria, *)
(* a failure of the score request or of score parsing yields score 0 with  *)
(* a generic justification.                                                *)
(***************************************************************************)
NotaAtribuida == fn \in {"atribuir_nota_competency1", "atribuir_nota_competencyN"}

PedidoFalhou == entrada.pedido.falha \/ ~entrada.pedido.formada

JustificativasGenericas == {ErroAoGerarNota, ErroAoGerarJustificativa}

C5_FalhaDaNotaZero ==
    (NotaAtribuida /\ PedidoFalhou) =>
        saida.nota = 0 /\ saida.justificativa \in JustificativasGenericas

(***************************************************************************)
(* C5 (amended).  On a failure of the score request or of score parsing,   *)
(* criteria 2 to 5 yield score 0 with the generic justification, and the   *)
(* language-norm criterion yields its rule-based baseline with the generic *)
(* justification that says the score comes from the objective criteria.    *)
(***************************************************************************)
BaseDaEntrada == nota_base(contagem_erros(entrada.erros))

C5_FalhaDaNotaZeroOuBase ==
    (NotaAtribuida /\ PedidoFalhou) =>
        IF entrada.comp = 1
        THEN saida = [nota |-> BaseDaEntrada, justificativa |-> ErroAoGerarJustificativa]
        ELSE saida = [nota |-> 0, justificativa |-> ErroAoGerarNota]

C5_Witness ==
    /\ fn = "atribuir_nota_competency1"
    /\ entrada.pedido.falha
    /\ Len(entrada.erros) = 2
    /\ saida.nota = 160

(***************************************************************************)
(* C6 (as stated).  For the criterion with a baseline, whenever the        *)
(* returned score differs from the baseline by more than 40 the final      *)
(* score is min(baseline, returned) and a deviation note is appended; when *)
(* the difference is at most 40 the returned score is kept and no          *)
(* deviation note is appended.                                             *)
(***************************************************************************)
TerminaEm(j, nota) ==
    Len(j) >= Len(nota) /\ SubSeq(j, Len(j) - Len(nota) + 1, Len(j)) = nota

NotaDevolvida == entrada.pedido.nota_servico

RegraDoDesvio ==
    IF Abs(NotaDevolvida - BaseDaEntrada) > 40
    THEN /\ saida.nota = Min2(BaseDaEntrada, NotaDevolvida)
         /\ TerminaEm(saida.justificativa, NotaAjustadaGravidade)
    ELSE /\ saida.nota = NotaDevolvida
         /\ ~TerminaEm(saida.justificativa, NotaAjustadaGravidade)

C6_DesvioMaiorQue40 ==
    (fn = "atribuir_nota_competency1" /\ ~PedidoFalhou) => RegraDoDesvio

(***************************************************************************)
(* C6 (amended).  The same rule, for a returned score that is one of the   *)
(* six rungs.                                                              *)
(***************************************************************************)
C6_DesvioMaiorQue40_NotaValida ==
    (fn = "atribuir_nota_competency1" /\ ~PedidoFalhou /\ NotaDevolvida \in NotasValidas)
        => RegraDoDesvio

C6_Witness ==
    /\ fn = "atribuir_nota_competency1"
    /\ ~PedidoFalhou
    /\ BaseDaEntrada = 200
    /\ NotaDevolvida = 80
    /\ saida.nota = 80
    /\ TerminaEm(saida.justificativa, NotaAjustadaGravidade)

(***************************************************************************)
(* C7.  For the criterion with a baseline, a returned score that is not    *)
(* one of the six rungs is first snapped to the rung nearest to the        *)
(* returned value, and only then is the deviation check against the        *)
(* baseline applied.                                                       *)
(***************************************************************************)
DegrausMaisProximos(n) ==
    { d \in NotasValidas : \A e \in NotasValidas : Abs(n - d) <= Abs(n - e) }

NotaAposDesvio(d, base) == IF Abs(d - base) > 40 THEN Min2(base, d) ELSE d

C7_DegrauMaisProximoAntesDoDesvio ==
    (fn = "atribuir_nota_competency1" /\ ~PedidoFalhou /\ NotaDevolvida \notin NotasValidas)
        => \E d \in DegrausMaisProximos(NotaDevolvida) :
               saida.nota = NotaAposDesvio(d, BaseDaEntrada)
(***************************************************************************)
(* The separation of real errors from style suggestions (the text that     *)
(* follows "Continuação da função analisar_competency1").                  *)
(***************************************************************************)
palavras_chave_sugestao ==
    {"pode ser melhorada", "poderia ser", "considerar", "sugerimos", "recomendamos",
     "ficaria melhor", "seria preferível", "opcionalmente", "para aprimorar",
     "para enriquecer", "estilo", "clareza", "mais elegante", "sugestão de melhoria",
     "alternativa", "opcional"}

termos_sentido_definido == {"artigo definido", "sentido definido", "locução"}
termos_regencia == {"regência", "preposição", "artigo feminino"}

\* the phrases of the vocabularies that occur inside the text of a token
TermosEm(c) ==
    CASE c = "poderia ser melhor" -> {"poderia ser"}
      [] c = "opcionalmente" -> {"opcionalmente", "opcional"}
      [] c = "estilo" -> {"estilo"}
      [] c = "alternativa" -> {"alternativa"}
      [] c = "artigo definido" -> {"artigo definido"}
      [] c = "sentido definido" -> {"sentido definido"}
      [] c = "locução" -> {"locução"}
      [] c = "regência" -> {"regência"}
      [] c = "preposição" -> {"preposição"}
      [] c = "artigo feminino" -> {"artigo feminino"}
      [] c = "função sintática" -> {"função sintática"}
      [] c = "complemento" -> {"complemento"}
      [] c = "crase" -> {"crase"}
      [] OTHER -> {}

\* any(termo in texto for termo in termos)
ContemTermo(texto, termos) ==
    \E i \in 1..Len(texto) : TermosEm(texto[i]) \cap termos # {}

\* variant: a record about 'crase' is a real error without further validation
Destino_SemValidacaoCrase(erro) ==
    IF ContemTermo(LowerSeq(Get(erro, K_explicacao, <<>>)), palavras_chave_sugestao)
       \/ ContemTermo(LowerSeq(Get(erro, K_sugestao, <<>>)), palavras_chave_sugestao)
    THEN "sugestoes_estilo"
    ELSE "erros_reais"

\* variant: the validation of 'crase' comes before the test for suggestions
Destino_CrasePrimeiro(erro) ==
    LET explicacao == LowerSeq(Get(erro, K_explicacao, <<>>))
        sugestao == LowerSeq(Get(erro, K_sugestao, <<>>))
    IN  IF ContemTermo(LowerSeq(Get(erro, K_descricao, <<>>)), {"crase"})
        THEN IF ContemTermo(explicacao, termos_sentido_definido)
                /\ ContemTermo(explicacao, termos_regencia)
             THEN "erros_reais"
             ELSE "descartado"
        ELSE IF ContemTermo(explicacao, palavras_chave_sugestao)
                \/ ContemTermo(sugestao, palavras_chave_sugestao)
        THEN "sugestoes_estilo"
        ELSE "erros_reais"

\* variant: one of the two signals is enough
Destino_UmSinal(erro) ==
    LET explicacao == LowerSeq(Get(erro, K_explicacao, <<>>))
        sugestao == LowerSeq(Get(erro, K_sugestao, <<>>))
    IN  IF ContemTermo(explicacao, palavras_chave_sugestao)
           \/ ContemTermo(sugestao, palavras_chave_sugestao)
        THEN "sugestoes_estilo"
        ELSE IF ContemTermo(LowerSeq(Get(erro, K_descricao, <<>>)), {"crase"})
        THEN IF ContemTermo(explicacao, termos_sentido_definido)
                \/ ContemTermo(explicacao, termos_regencia)
             THEN "erros_reais"
             ELSE "descartado"
        ELSE "erros_reais"

\* the body of the loop over todos_erros: where the record goes
Destino(erro) ==
    LET explicacao == LowerSeq(Get(erro, K_explicacao, <<>>))
        sugestao == LowerSeq(Get(erro, K_sugestao, <<>>))
    IN  IF ContemTermo(explicacao, palavras_chave_sugestao)
           \/ ContemTermo(sugestao, palavras_chave_sugestao)
        THEN "sugestoes_estilo"
        ELSE IF ContemTermo(LowerSeq(Get(erro, K_descricao, <<>>)), {"crase"})
        THEN IF ContemTermo(explicacao, termos_sentido_definido)
                /\ ContemTermo(explicacao, termos_regencia)
             THEN "erros_reais"
             ELSE "descartado"
        ELSE "erros_reais"

RECURSIVE separar_erros(_, _)
separar_erros(listas, todos_erros) ==
    IF todos_erros = <<>> THEN listas
    ELSE LET erro == Head(todos_erros)
             d == Destino(erro)
         IN  separar_erros(
                 [erros_reais |-> listas.erros_reais
                                    \o (IF d = "erros_reais" THEN <<erro>> ELSE <<>>),
                  sugestoes_estilo |-> listas.sugestoes_estilo
                                    \o (IF d = "sugestoes_estilo" THEN <<erro>> ELSE <<>>)],
                 Tail(todos_erros))

(* Specification of the separation on bounded lists of parsed records. *)
MaxErrosSeparar == 3

Registro(descricao, explicacao, sugestao) ==
    [x \in {K_trecho, K_descricao, K_explicacao, K_sugestao} |->
        IF x = K_trecho THEN <<"T">>
        ELSE IF x = K_descricao THEN descricao
        ELSE IF x = K_explicacao THEN explicacao ELSE sugestao]

SemCampo(erro, k) == [x \in (DOMAIN erro) \ {k} |-> erro[x]]

ErrosParaSeparar ==
    { Registro(<<"D">>, <<"N">>, <<"S">>),
      Registro(<<"D">>, <<"N", " ", "poderia ser melhor">>, <<"S">>),
      SemCampo(Registro(<<"D">>, <<>>, <<"Estilo">>), K_explicacao),
      Registro(<<"Crase">>, <<"artigo definido", " ", "preposição">>, <<"S">>),
      Registro(<<"crase">>, <<"locução">>, <<"S">>),
      Registro(<<"crase">>, <<"Regência">>, <<"S">>),
      Registro(<<"crase">>, <<"N">>, <<"S">>),
      Registro(<<"crase">>, <<"artigo definido", " ", "preposição", " ", "poderia ser melhor">>,
               <<"S">>),
      Registro(<<"crase">>, <<"locução", " ", "artigo feminino">>, <<"opcionalmente">>),
      SemCampo(SemCampo(Registro(<<"crase">>, <<>>, <<>>), K_explicacao), K_sugestao) }

InitSeparar ==
    /\ fn = "idle"
    /\ entrada \in UNION { [1..n -> ErrosParaSeparar] : n \in 0..MaxErrosSeparar }
    /\ saida = <<>>
    /\ PipelineParado

SepararErros ==
    /\ fn = "idle"
    /\ fn' = "separar_erros"
    /\ saida' = separar_erros([erros_reais |-> <<>>, sugestoes_estilo |-> <<>>], entrada)
    /\ UNCHANGED <<entrada, pvars>>

NextSeparar == SepararErros

SpecSeparar == InitSeparar /\ [][NextSeparar]_vars

(***************************************************************************)
(* C11 (as stated).  Every parsed record given to the separation ends up   *)
(* in exactly one of the two lists, never in both and never in neither.    *)
(***************************************************************************)
Vezes(lista, erro) == Cardinality({ i \in 1..Len(lista) : lista[i] = erro })

C11_SeparacaoParticiona ==
    fn = "separar_erros" =>
        \A i \in 1..Len(entrada) :
            LET nr == Vezes(saida.erros_reais, entrada[i])
                ns == Vezes(saida.sugestoes_estilo, entrada[i])
            IN  /\ nr = 0 \/ ns = 0
                /\ nr + ns = Vezes(entrada, entrada[i])

(***************************************************************************)
(* C11 (amended).  The two lists are disjoint and hold only records of the *)
(* input, each as many times as it was given; a record is in neither list  *)
(* exactly when it is no suggestion, its description mentions 'crase' and  *)
(* its explanation lacks a definite-sense signal or a government signal.   *)
(***************************************************************************)
TextoDe(erro, k) == IF k \in DOMAIN erro THEN LowerSeq(erro[k]) ELSE <<>>

Menciona(texto, termos) ==
    \E i \in 1..Len(texto) : \E t \in termos : t \in TermosEm(texto[i])

EhSugestao(erro) ==
    Menciona(TextoDe(erro, K_explicacao), palavras_chave_sugestao)
        \/ Menciona(TextoDe(erro, K_sugestao), palavras_chave_sugestao)

CraseSemSinais(erro) ==
    /\ ~EhSugestao(erro)
    /\ Menciona(TextoDe(erro, K_descricao), {"crase"})
    /\ ~(Menciona(TextoDe(erro, K_explicacao), termos_sentido_definido)
           /\ Menciona(TextoDe(erro, K_explicacao), termos_regencia))

C11_SeparacaoDisjunta ==
    fn = "separar_erros" =>
        \A i \in 1..Len(entrada) :
            LET nr == Vezes(saida.erros_reais, entrada[i])
                ns == Vezes(saida.sugestoes_estilo, entrada[i])
            IN  /\ nr = 0 \/ ns = 0
                /\ nr + ns = IF CraseSemSinais(entrada[i]) THEN 0
                             ELSE Vezes(entrada, entrada[i])
                /\ Len(saida.erros_reais) + Len(saida.sugestoes_estilo) <= Len(entrada)

C11_Witness ==
    /\ fn = "separar_erros"
    /\ Len(entrada) = 3
    /\ Len(saida.erros_reais) = 1
    /\ Len(saida.sugestoes_estilo) = 1
(***************************************************************************)
(* C12.  A record whose explanation or suggestion contains a phrase of the *)
(* hedge vocabulary always goes to the style suggestions and never to the  *)
(* real errors, whatever its description, 'crase' included.                *)
(***************************************************************************)
C12_SugestaoNuncaErroReal ==
    fn = "separar_erros" =>
        \A i \in 1..Len(entrada) :
            EhSugestao(entrada[i]) =>
                /\ Vezes(saida.sugestoes_estilo, entrada[i]) = Vezes(entrada, entrada[i])
                /\ Vezes(saida.erros_reais, entrada[i]) = 0

C12_Witness ==
    /\ fn = "separar_erros"
    /\ \E i \in 1..Len(entrada) :
          /\ Menciona(TextoDe(entrada[i], K_descricao), {"crase"})
          /\ Menciona(TextoDe(entrada[i], K_explicacao), {"poderia ser"})
          /\ Menciona(TextoDe(entrada[i], K_explicacao), termos_sentido_definido)
          /\ Menciona(TextoDe(entrada[i], K_explicacao), termos_regencia)
          /\ Vezes(saida.sugestoes_estilo, entrada[i]) = 1
    /\ Len(saida.erros_reais) = 1

(***************************************************************************)
(* C13.  A record that is no suggestion and whose description mentions     *)
(* 'crase' is a real error if and only if its explanation contains at      *)
(* least one definite-sense signal and at least one government signal.     *)
(***************************************************************************)
C13_CraseExigeDoisSinais ==
    fn = "separar_erros" =>
        \A i \in 1..Len(entrada) :
            (~EhSugestao(entrada[i]) /\ Menciona(TextoDe(entrada[i], K_descricao), {"crase"}))
                => (Vezes(saida.erros_reais, entrada[i]) > 0
                      <=> /\ Menciona(TextoDe(entrada[i], K_explicacao), termos_sentido_definido)
                          /\ Menciona(TextoDe(entrada[i], K_explicacao), termos_regencia))

C13_Witness ==
    /\ fn = "separar_erros"
    /\ Len(entrada) = 3
    /\ \A i \in 1..3 : Menciona(TextoDe(entrada[i], K_descricao), {"crase"})
                        /\ ~EhSugestao(entrada[i])
    /\ Menciona(TextoDe(entrada[1], K_explicacao), termos_sentido_definido)
    /\ ~Menciona(TextoDe(entrada[1], K_explicacao), termos_regencia)
    /\ Menciona(TextoDe(entrada[2], K_explicacao), termos_regencia)
    /\ ~Menciona(TextoDe(entrada[2], K_explicacao), termos_sentido_definido)
    /\ saida.erros_reais = <<entrada[3]>>
(***************************************************************************)
(* revisar_erros_competency1                                               *)
(***************************************************************************)
\* len() of the tokens the replies use, in characters
TamanhoToken(c) ==
    CASE c = "artigo definido" -> 15
      [] c = "preposição" -> 10
      [] c = "regência" -> 8
      [] c = "locução" -> 7
      [] c = "função sintática" -> 16
      [] c = "complemento" -> 11
      [] c = "Sim" -> 3
      [] c = "Não" -> 3
      [] OTHER -> 1

RECURSIVE Tamanho(_)
Tamanho(s) == IF s = <<>> THEN 0 ELSE TamanhoToken(Head(s)) + Tamanho(Tail(s))

\* str.find: the first position (from 0) where t occurs in s, or -1
FindSub(s, t) ==
    LET ocorre == { i \in 0..(Len(s) - Len(t)) : SubSeq(s, i + 1, i + Len(t)) = t }
    IN  IF ocorre = {} THEN 0 - 1
        ELSE CHOOSE i \in ocorre : \A j \in ocorre : i <= j

Janela == 100
MinExplicacao == 50

\* variant: the window after the excerpt counted from the start of the excerpt
contexto_expandido_FimCurto(erro, redacao_texto) ==
    LET trecho == Get(erro, K_trecho, <<>>)
        inicio_trecho == FindSub(redacao_texto, trecho)
    IN  IF inicio_trecho # 0 - 1
        THEN LET inicio_contexto == Max2(0, inicio_trecho - Janela)
                 fim_contexto == Min2(Len(redacao_texto), inicio_trecho + Janela)
             IN  SubSeq(redacao_texto, inicio_contexto + 1, fim_contexto)
        ELSE trecho
\* variant: the context is always the excerpt
contexto_expandido_SoTrecho(erro, redacao_texto) == Get(erro, K_trecho, <<>>)

\* up to 100 characters before and after the excerpt, or the excerpt itself
contexto_expandido(erro, redacao_texto) ==
    LET trecho == Get(erro, K_trecho, <<>>)
        inicio_trecho == FindSub(redacao_texto, trecho)
    IN  IF inicio_trecho # 0 - 1
        THEN LET inicio_contexto == Max2(0, inicio_trecho - Janela)
                 fim_contexto == Min2(Len(redacao_texto),
                                      inicio_trecho + Len(trecho) + Janela)
             IN  SubSeq(redacao_texto, inicio_contexto + 1, fim_contexto)
        ELSE trecho

K_analise_sintatica == <<"análise_sintática">>
K_regra_aplicavel == <<"regra_aplicável">>
K_contexto_expandido == <<"contexto_expandido">>

\* variant: an explanation of exactly the minimum length passes
RevisaoValida_Desde50(revisao) ==
    /\ revisao["Erro Confirmado"] = <<"Sim">>
    /\ "Análise Sintática" \in DOMAIN revisao
    /\ "Regra Aplicável" \in DOMAIN revisao
    /\ Tamanho(Get(revisao, "Explicação Revisada", <<>>)) >= MinExplicacao

\* the "validação rigorosa" of the revision
RevisaoValida(revisao) ==
    /\ revisao["Erro Confirmado"] = <<"Sim">>
    /\ "Análise Sintática" \in DOMAIN revisao
    /\ "Regra Aplicável" \in DOMAIN revisao
    /\ Tamanho(Get(revisao, "Explicação Revisada", <<>>)) > MinExplicacao

\* variant: the rule of the separation of the real errors, on the explanation
CraseConfirmada_RegraDaSeparacao(revisao) ==
    LET explicacao == LowerSeq(revisao["Explicação Revisada"])
    IN  /\ ContemTermo(explicacao, termos_sentido_definido)
        /\ ContemTermo(explicacao, termos_regencia)
\* the additional validation of a record about 'crase'
CraseConfirmada(revisao) ==
    LET explicacao == LowerSeq(revisao["Explicação Revisada"])
        analise == LowerSeq(revisao["Análise Sintática"])
    IN  /\ ContemTermo(explicacao, {"artigo definido"})
        /\ ContemTermo(explicacao, {"preposição"})
        /\ ContemTermo(analise, {"função sintática", "regência", "complemento"})

\* erro.copy() and update({...})
ErroRevisado1(erro, revisao, contexto) ==
    Put(Put(Put(Put(Put(Put(erro,
        K_analise_sintatica, revisao["Análise Sintática"]),
        K_regra_aplicavel, revisao["Regra Aplicável"]),
        K_explicacao, revisao["Explicação Revisada"]),
        K_sugestao, revisao["Sugestão Revisada"]),
        K_consideracoes, revisao["Considerações ENEM"]),
        K_contexto_expandido, contexto)

\* what one iteration appends to erros_revisados, whether it raised, and the
\* object erro_revisado as the iteration leaves it, when erro.copy() was reached
RevisarUm1(erro, redacao_texto, pedido) ==
    IF pedido.falha THEN [excecao |-> TRUE, novos |-> <<>>, copia |-> <<>>]
    ELSE LET p == extrair_revisao_do_resultado(pedido.resposta)
         IN  IF p.tipo # "ok" THEN [excecao |-> TRUE, novos |-> <<>>, copia |-> <<>>]
             ELSE IF "Erro Confirmado" \notin DOMAIN p.revisao
             THEN [excecao |-> TRUE, novos |-> <<>>, copia |-> <<>>]
             ELSE IF ~RevisaoValida(p.revisao)
             THEN [excecao |-> FALSE, novos |-> <<>>, copia |-> <<>>]
             ELSE IF ~({"Sugestão Revisada", "Considerações ENEM"} \subseteq DOMAIN p.revisao)
             THEN [excecao |-> TRUE, novos |-> <<>>, copia |-> <<erro>>]
             ELSE LET revisado == ErroRevisado1(erro, p.revisao,
                                      contexto_expandido(erro, redacao_texto))
                  IN  IF ContemTermo(LowerSeq(Get(erro, K_descricao, <<>>)), {"crase"})
                         /\ ~CraseConfirmada(p.revisao)
                      THEN [excecao |-> FALSE, novos |-> <<>>, copia |-> <<revisado>>]
                      ELSE [excecao |-> FALSE, novos |-> <<revisado>>,
                            copia |-> <<revisado>>]
(***************************************************************************)
(* Specification of revisar_erros_competency1..5: the loop over the        *)
(* records, one revision request per iteration, and the return.            *)
(***************************************************************************)
MaxErrosRevisao == 2

Repetido(c, n) == [i \in 1..n |-> c]

\* essays: the excerpt "T" near both ends, with the excerpt "ab" after it; and
\* far from both ends and once more at the end, without the excerpt "ab"
RedacoesParaRevisar ==
    { <<"a", "T", "b", "a", "b">>,
      Repetido("a", Janela + 20) \o <<"T">> \o Repetido("b", Janela + 20) \o <<"T">> }

ErrosParaRevisar ==
    { [x \in {K_trecho, K_descricao} |-> IF x = K_trecho THEN <<"T">> ELSE <<"Crase">>],
      [x \in {K_trecho, K_descricao, K_explicacao} |->
          IF x = K_trecho THEN <<"a", "b">> ELSE IF x = K_descricao THEN <<"D">> ELSE <<"E">>] }

\* a revised explanation of n characters, with and without the signals
ExplicacaoComSinais(n) ==
    <<"artigo definido", " ", "preposição">> \o Repetido("x", n - 26)
ExplicacaoSemSinais(n) == Repetido("x", n)
\* with the signals the separation of the real errors asks for, of n characters
ExplicacaoComLocucao(n) == <<"locução", " ", "regência">> \o Repetido("x", n - 16)

CamposRevisao(confirmado, explicacao) ==
    [x \in {"Erro Confirmado", "Análise Sintática", "Regra Aplicável",
            "Explicação Revisada", "Sugestão Revisada", "Considerações ENEM"} |->
        IF x = "Erro Confirmado" THEN confirmado
        ELSE IF x = "Explicação Revisada" THEN explicacao
        ELSE IF x = "Análise Sintática" THEN <<"Regência">>
        ELSE <<"R">>]

SemChave(revisao, k) == [x \in (DOMAIN revisao) \ {k} |-> revisao[x]]

CamposParaRevisar ==
    { CamposRevisao(<<"Sim">>, ExplicacaoComSinais(MinExplicacao + 1)),
      CamposRevisao(<<"Sim">>, ExplicacaoComSinais(MinExplicacao)),
      CamposRevisao(<<"Sim">>, ExplicacaoSemSinais(MinExplicacao + 1)),
      CamposRevisao(<<"Sim">>, ExplicacaoComLocucao(MinExplicacao + 1)),
      Put(CamposRevisao(<<"Sim">>, ExplicacaoComSinais(MinExplicacao + 1)),
          "Análise Sintática", <<"R">>),
      CamposRevisao(<<"Não">>, ExplicacaoComSinais(MinExplicacao + 1)),
      SemChave(CamposRevisao(<<"Sim">>, ExplicacaoComSinais(MinExplicacao + 1)),
               "Análise Sintática"),
      SemChave(CamposRevisao(<<"Sim">>, ExplicacaoComSinais(MinExplicacao + 1)),
               "Regra Aplicável"),
      SemChave(CamposRevisao(<<"Sim">>, ExplicacaoComSinais(MinExplicacao + 1)),
               "Sugestão Revisada"),
      SemChave(CamposRevisao(<<"Sim">>, ExplicacaoComSinais(MinExplicacao + 1)),
               "Considerações ENEM"),
      SemChave(CamposRevisao(<<"Sim">>, <<>>), "Explicação Revisada"),
      SemChave(CamposRevisao(<<"Sim">>, ExplicacaoComSinais(MinExplicacao + 1)),
               "Erro Confirmado") }

RevisoesDoServico ==
    { [falha |-> TRUE, resposta |-> [formada |-> FALSE, campos |-> DictVazio]],
      [falha |-> FALSE, resposta |-> [formada |-> FALSE, campos |-> DictVazio]] }
    \cup { [falha |-> FALSE, resposta |-> [formada |-> TRUE, campos |-> c]] :
             c \in CamposParaRevisar }

InitRevisao ==
    /\ fn = "idle"
    /\ entrada \in [comp : 1..NumCompetencias,
                    erros : UNION { [1..n -> ErrosParaRevisar] : n \in 0..MaxErrosRevisao },
                    redacao : RedacoesParaRevisar]
    /\ saida = <<>>
    /\ comp = 0 /\ fase = "laco" /\ resultados = <<>> /\ excecoes = <<>>
    /\ em_curso = [identificados |-> entrada.erros, revisados |-> <<>>,
                   objetos |-> entrada.erros, refs |-> <<>>]
    /\ pedidos = <<>>

\* The dict objects of the call: em_curso.objetos maps each object to its
\* contents, the objects 1..Len(entrada.erros) being the records of the list
\* received, in its order; em_curso.refs lists the objects of erros_revisados.
ErroAtual == Len(entrada.erros) - Len(em_curso.identificados) + 1

\* variant: erro_revisado is the record received itself
erro_copy_MesmoObjeto(objetos, erro) == erro

\* erro.copy(): a new object
erro_copy(objetos, erro) == Len(objetos) + 1

\* the writes of the iteration go to the object erro_revisado
ObjetosDepois(r) ==
    IF r.copia = <<>> THEN em_curso.objetos
    ELSE Put(em_curso.objetos, erro_copy(em_curso.objetos, ErroAtual), r.copia[1])

\* erros_revisados.append(erro_revisado)
RefsDepois(r) ==
    IF r.novos = <<>> THEN em_curso.refs
    ELSE Append(em_curso.refs, erro_copy(em_curso.objetos, ErroAtual))

\* the context written in the revision request of criterion 1; the requests
\* of criteria 2 to 5 carry none
ContextoDoPedido ==
    IF entrada.comp = 1
    THEN contexto_expandido(Head(em_curso.identificados), entrada.redacao)
    ELSE <<>>
\* variant: an exception ends the loop
Iteracao_Aborta(r, p) ==
    /\ em_curso' = [identificados |-> IF r.excecao THEN <<>> ELSE Tail(em_curso.identificados),
                    revisados |-> em_curso.revisados \o r.novos,
                    objetos |-> ObjetosDepois(r),
                    refs |-> RefsDepois(r)]
    /\ pedidos' = Append(pedidos, [erro |-> Head(em_curso.identificados),
                                   contexto |-> ContextoDoPedido,
                                   pedido |-> p, excecao |-> r.excecao,
                                   aceito |-> r.novos # <<>>])
    /\ UNCHANGED <<fn, entrada, saida, comp, fase, resultados, excecoes>>

\* one iteration: the request, what it appends, and on to the next record
Iteracao(r, p) ==
    /\ em_curso' = [identificados |-> Tail(em_curso.identificados),
                    revisados |-> em_curso.revisados \o r.novos,
                    objetos |-> ObjetosDepois(r),
                    refs |-> RefsDepois(r)]
    /\ pedidos' = Append(pedidos, [erro |-> Head(em_curso.identificados),
                                   contexto |-> ContextoDoPedido,
                                   pedido |-> p, excecao |-> r.excecao,
                                   aceito |-> r.novos # <<>>])
    /\ UNCHANGED <<fn, entrada, saida, comp, fase, resultados, excecoes>>

RevisarErro1 ==
    /\ fase = "laco" /\ entrada.comp = 1 /\ em_curso.identificados # <<>>
    /\ \E p \in RevisoesDoServico :
          Iteracao(RevisarUm1(Head(em_curso.identificados), entrada.redacao, p), p)

RevisarErroN ==
    /\ fase = "laco" /\ entrada.comp \in 2..NumCompetencias
    /\ em_curso.identificados # <<>>
    /\ \E p \in RevisoesDoServico :
          Iteracao(RevisarUmN(Head(em_curso.identificados), p), p)

DevolverRevisados ==
    /\ fase = "laco" /\ em_curso.identificados = <<>>
    /\ fase' = "devolvido"
    /\ fn' = "revisar_erros"
    /\ saida' = em_curso.revisados
    /\ UNCHANGED <<entrada, comp, resultados, excecoes, em_curso, pedidos>>

NextRevisao == RevisarErro1 \/ RevisarErroN \/ DevolverRevisados

SpecRevisao == InitRevisao /\ [][NextRevisao]_vars
(***************************************************************************)
(* C14 (as stated).  In the revision stage of every criterion, a record    *)
(* appears in the confirmed output only if its revision reply has          *)
(* confirmed = yes, contains the syntactic-analysis and applicable-rule    *)
(* fields, and carries a revised explanation longer than 50 characters.    *)
(***************************************************************************)
CamposDe(h) == h.pedido.resposta.campos

RespostaLida(h) == ~h.pedido.falha /\ h.pedido.resposta.formada

Confirmado(h) ==
    /\ RespostaLida(h)
    /\ "Erro Confirmado" \in DOMAIN CamposDe(h)
    /\ CamposDe(h)["Erro Confirmado"] = <<"Sim">>

ExplicacaoLonga(h) ==
    /\ "Explicação Revisada" \in DOMAIN CamposDe(h)
    /\ Tamanho(CamposDe(h)["Explicação Revisada"]) >= 51

RevisaoCompleta(h) ==
    /\ Confirmado(h)
    /\ {"Análise Sintática", "Regra Aplicável"} \subseteq DOMAIN CamposDe(h)
    /\ ExplicacaoLonga(h)

C14_AceitoSoComRevisaoCompleta ==
    \A i \in 1..Len(pedidos) :
        (fase \in {"laco", "devolvido"} /\ pedidos[i].aceito) => RevisaoCompleta(pedidos[i])

(***************************************************************************)
(* C14 (amended).  In criterion 1 a record is confirmed only if its reply  *)
(* has confirmed = yes, both fields and a revised explanation longer than  *)
(* 50 characters; in criteria 2 to 5 a record is confirmed only if its     *)
(* reply has confirmed = yes and the exam-relevance notes.                 *)
(***************************************************************************)
C14_AceitoSoComRevisaoExigida ==
    \A i \in 1..Len(pedidos) :
        (fase \in {"laco", "devolvido"} /\ pedidos[i].aceito) =>
            IF entrada.comp = 1 THEN RevisaoCompleta(pedidos[i])
            ELSE Confirmado(pedidos[i])
                   /\ "Considerações ENEM" \in DOMAIN CamposDe(pedidos[i])

C14_Witness ==
    /\ fase = "devolvido" /\ entrada.comp = 1
    /\ Len(pedidos) = 2
    /\ Confirmado(pedidos[1]) /\ ~pedidos[1].aceito
    /\ "Explicação Revisada" \in DOMAIN CamposDe(pedidos[1])
    /\ Tamanho(CamposDe(pedidos[1])["Explicação Revisada"]) = 50
    /\ pedidos[2].aceito
    /\ Tamanho(CamposDe(pedidos[2])["Explicação Revisada"]) = 51

(***************************************************************************)
(* C15.  A failed revision request or an unparsable or incomplete reply    *)
(* for one record drops only that record: every later record is still      *)
(* revised, no exception leaves the function, and the output is exactly    *)
(* the accepted records in their original order.                           *)
(***************************************************************************)
SinaisDeCrase(h) ==
    LET e == LowerSeq(CamposDe(h)["Explicação Revisada"])
        a == LowerSeq(CamposDe(h)["Análise Sintática"])
    IN  /\ Menciona(e, {"artigo definido"}) /\ Menciona(e, {"preposição"})
        /\ Menciona(a, {"função sintática", "regência", "complemento"})

\* the reply makes the record a confirmed one
Aceitavel(c, h) ==
    IF c = 1
    THEN /\ RevisaoCompleta(h)
         /\ {"Sugestão Revisada", "Considerações ENEM"} \subseteq DOMAIN CamposDe(h)
         /\ Menciona(TextoDe(h.erro, K_descricao), {"crase"}) => SinaisDeCrase(h)
    ELSE Confirmado(h) /\ "Considerações ENEM" \in DOMAIN CamposDe(h)

Aceitos == { i \in 1..Len(pedidos) : Aceitavel(entrada.comp, pedidos[i]) }

Kesimo(S, k) == CHOOSE i \in S : Cardinality({ j \in S : j <= i }) = k

C15_FalhaDescartaSoORegistro ==
    /\ fase = "laco" => ENABLED NextRevisao
    /\ fase = "devolvido" =>
          /\ Len(pedidos) = Len(entrada.erros)
          /\ \A i \in 1..Len(pedidos) : pedidos[i].erro = entrada.erros[i]
          /\ Len(saida) = Cardinality(Aceitos)
          /\ \A k \in 1..Len(saida) :
                /\ saida[k][K_trecho] = entrada.erros[Kesimo(Aceitos, k)][K_trecho]
                /\ saida[k][K_descricao] = entrada.erros[Kesimo(Aceitos, k)][K_descricao]
                /\ saida[k][K_consideracoes]
                      = CamposDe(pedidos[Kesimo(Aceitos, k)])["Considerações ENEM"]

C15_Witness ==
    /\ fase = "devolvido"
    /\ Len(pedidos) = 2
    /\ pedidos[1].excecao
    /\ entrada.erros[1] # entrada.erros[2]
    /\ Len(saida) = 1
    /\ saida[1][K_trecho] = entrada.erros[2][K_trecho]

(***************************************************************************)
(* C16 (as stated).  Every record that reaches the confirmed list has an   *)
(* excerpt that is a literal substring of the essay; a record whose        *)
(* excerpt does not occur in the essay is never confirmed.                 *)
(***************************************************************************)
\* t occurs in r at position i (from 1)
OcorreEm(r, t, i) == i >= 1 /\ i + Len(t) - 1 <= Len(r) /\ SubSeq(r, i, i + Len(t) - 1) = t

Ocorre(r, t) == \E i \in 1..(Len(r) + 1) : OcorreEm(r, t, i)

C16_TrechoConfirmadoOcorreNaRedacao ==
    fase = "devolvido" =>
        \A k \in 1..Len(saida) : Ocorre(entrada.redacao, saida[k][K_trecho])

(***************************************************************************)
(* C16 (amended).  The excerpt is searched in the essay only to build the  *)
(* context of the revision request of criterion 1: a confirmed record of   *)
(* criterion 1 carries as context the text from 100 characters before the  *)
(* first occurrence of its excerpt to 100 characters after it when the     *)
(* excerpt occurs in the essay, and the excerpt itself when it does not;   *)
(* criteria 2 to 5 make no search and add no context.                      *)
(***************************************************************************)
ContextoEsperado(r, t) ==
    IF Ocorre(r, t)
    THEN LET i == CHOOSE i \in 1..(Len(r) + 1) :
                      OcorreEm(r, t, i) /\ \A j \in 1..(i - 1) : ~OcorreEm(r, t, j)
             de == IF i - 100 < 1 THEN 1 ELSE i - 100
             ate == IF i + Len(t) + 99 > Len(r) THEN Len(r) ELSE i + Len(t) + 99
         IN  SubSeq(r, de, ate)
    ELSE t

C16_TrechoProcuradoSoParaContexto ==
    fase = "devolvido" =>
        \A k \in 1..Len(saida) :
            IF entrada.comp = 1
            THEN /\ K_contexto_expandido \in DOMAIN saida[k]
                 /\ saida[k][K_contexto_expandido]
                       = ContextoEsperado(entrada.redacao, saida[k][K_trecho])
            ELSE K_contexto_expandido \notin DOMAIN saida[k]

C16_Witness ==
    /\ fase = "devolvido" /\ entrada.comp = 1
    /\ Len(saida) = 2
    /\ ~Ocorre(entrada.redacao, saida[1][K_trecho])
    /\ saida[1][K_contexto_expandido] = saida[1][K_trecho]
    /\ Ocorre(entrada.redacao, saida[2][K_trecho])
    /\ Len(saida[2][K_contexto_expandido]) = 201
(***************************************************************************)
(* validar_redacao (the definition in force, the second one)               *)
(***************************************************************************)
MinPalavras == 50
MaxPalavras == 3000

\* len(texto.split()): the maximal runs of characters that are not blank
ContaPalavras(texto) ==
    Cardinality({ i \in 1..Len(texto) :
                    ~Branco(texto[i]) /\ (i = 1 \/ Branco(texto[i - 1])) })

\* not s or not s.strip()
Vazio(s) == s = <<>> \/ RStripWS(LStripWS(s)) = <<>>

TextoVazio == <<"O texto da redação não pode estar vazio.">>
TemaVazio == <<"O tema da redação não pode estar vazio.">>
TextoMuitoCurto(palavras) ==
    <<"Texto muito curto (", palavras, " palavras). Mínimo recomendado: 400 palavras.">>
TextoMuitoLongo(palavras) ==
    <<"Texto muito longo (", palavras, " palavras). Máximo recomendado: 3000 palavras.">>

\* variant: the limits themselves are rejected
validar_redacao_LimitesExclusivos(texto, tema) ==
    IF Vazio(texto) THEN [ok |-> FALSE, mensagem |-> TextoVazio]
    ELSE IF Vazio(tema) THEN [ok |-> FALSE, mensagem |-> TemaVazio]
    ELSE IF ContaPalavras(texto) <= MinPalavras
    THEN [ok |-> FALSE, mensagem |-> TextoMuitoCurto(ContaPalavras(texto))]
    ELSE IF ContaPalavras(texto) >= MaxPalavras
    THEN [ok |-> FALSE, mensagem |-> TextoMuitoLongo(ContaPalavras(texto))]
    ELSE [ok |-> TRUE, mensagem |-> <<>>]

validar_redacao(texto, tema) ==
    IF Vazio(texto) THEN [ok |-> FALSE, mensagem |-> TextoVazio]
    ELSE IF Vazio(tema) THEN [ok |-> FALSE, mensagem |-> TemaVazio]
    ELSE LET palavras == ContaPalavras(texto)
         IN  IF palavras < MinPalavras
             THEN [ok |-> FALSE, mensagem |-> TextoMuitoCurto(palavras)]
             ELSE IF palavras > MaxPalavras
             THEN [ok |-> FALSE, mensagem |-> TextoMuitoLongo(palavras)]
             ELSE [ok |-> TRUE, mensagem |-> <<>>]

(* Specification of validar_redacao on essays around the two limits. *)
MaxFolga == 1

\* n words: separated by one blank; by two, with blanks around; by a line break
TextoDePalavras(n, forma) ==
    IF forma = 1 THEN [i \in 1..(2 * n - 1) |-> IF i % 2 = 1 THEN "p" ELSE " "]
    ELSE IF forma = 2
    THEN <<NL, " ">> \o [i \in 1..(3 * n) |-> IF i % 3 = 1 THEN "p" ELSE " "]
    ELSE [i \in 1..(3 * n - 2) |-> IF i % 3 = 0 THEN NL ELSE "p"]

NumerosDePalavras ==
    (1..(1 + MaxFolga))
        \cup ((MinPalavras - MaxFolga)..(MinPalavras + MaxFolga))
        \cup ((MaxPalavras - MaxFolga)..(MaxPalavras + MaxFolga))

\* palavras is the number of words the essay was written with
RedacoesParaValidar ==
    { [texto |-> TextoDePalavras(n, f), palavras |-> n] :
        n \in NumerosDePalavras, f \in 1..3 }
    \cup { [texto |-> t, palavras |-> 0] : t \in {<<>>, <<" ">>, <<NL, " ", NL>>} }

TemasParaValidar == { <<>>, <<" ", NL>>, <<"T">>, <<" ", "T", " ", "U">> }

InitValidar ==
    /\ fn = "idle"
    /\ entrada \in { [texto |-> r.texto, palavras |-> r.palavras, tema |-> t] :
                       r \in RedacoesParaValidar, t \in TemasParaValidar }
    /\ saida = <<>>
    /\ PipelineParado

ValidarRedacao ==
    /\ fn = "idle"
    /\ fn' = "validar_redacao"
    /\ saida' = validar_redacao(entrada.texto, entrada.tema)
    /\ UNCHANGED <<entrada, pvars>>

NextValidar == ValidarRedacao

SpecValidar == InitValidar /\ [][NextValidar]_vars

(***************************************************************************)
(* C17.  validar_redacao returns ok exactly when the essay is not blank,   *)
(* the topic is not blank and the number of words w has 50 <= w <= 3000;   *)
(* 49 words fail as too short, 3001 as too long; a blank essay is reported *)
(* before a blank topic.                                                   *)
(***************************************************************************)
TemLetra(s) == \E i \in 1..Len(s) : s[i] \notin {" ", NL}

SubmissoesEnvio ==
    { [texto |-> TextoDePalavras(MinPalavras, 1), palavras |-> MinPalavras, tema |-> <<"T">>],
      [texto |-> TextoDePalavras(MinPalavras - 1, 1), palavras |-> MinPalavras - 1,
       tema |-> <<"T">>],
      [texto |-> TextoDePalavras(MaxPalavras + 1, 1), palavras |-> MaxPalavras + 1,
       tema |-> <<"T">>],
      [texto |-> <<" ">>, palavras |-> 0, tema |-> <<"T">>],
      [texto |-> TextoDePalavras(MinPalavras, 1), palavras |-> MinPalavras, tema |-> <<" ">>] }

InitEnvio ==
    /\ fn = "idle"
    /\ entrada \in SubmissoesEnvio
    /\ saida = <<>>
    /\ comp = 1
    /\ fase = "envio"
    /\ resultados = ResultadosIniciais
    /\ em_curso = <<>>
    /\ pedidos = <<>>
    /\ excecoes = [c \in 1..NumCompetencias |-> {}]

\* variant: the submission is analysed whatever the validation says
pagina_envio_redacao_SemValidar ==
    /\ fase = "envio"
    /\ fn' = "validar_redacao"
    /\ saida' = validar_redacao(entrada.texto, entrada.tema)
    /\ fase' = "analise"
    /\ UNCHANGED <<entrada, comp, resultados, em_curso, pedidos, excecoes>>

pagina_envio_redacao ==
    /\ fase = "envio"
    /\ fn' = "validar_redacao"
    /\ saida' = validar_redacao(entrada.texto, entrada.tema)
    /\ fase' = IF saida'.ok THEN "analise" ELSE "rejeitada"
    /\ UNCHANGED <<entrada, comp, resultados, em_curso, pedidos, excecoes>>

NextEnvio ==
    \/ pagina_envio_redacao
    \/ AnalisarCompetency1
    \/ AnalisarFalha
    \/ AnalisarResposta
    \/ Revisar
    \/ AtribuirNota
    \/ Totalizar

SpecEnvio == InitEnvio /\ [][NextEnvio]_vars

(***************************************************************************)
(* C18.  No generation request is ever issued for a submission that        *)
(* validation rejects: the first generation request is preceded by a       *)
(* successful validation of the same essay and topic.                      *)
(***************************************************************************)
SubmissaoValida ==
    /\ TemLetra(entrada.texto) /\ TemLetra(entrada.tema)
    /\ 50 <= entrada.palavras /\ entrada.palavras <= 3000

C18_PedidoSoDepoisDeValidar ==
    /\ pedidos # <<>> => (fn = "validar_redacao" /\ saida.ok /\ SubmissaoValida)
    /\ (fn = "validar_redacao" /\ ~saida.ok) => (pedidos = <<>> /\ fase = "rejeitada")

C18_Witness ==
    /\ Len(pedidos) = 1
    /\ fn = "validar_redacao" /\ saida.ok
    /\ pedidos[1].tipo = "analise"
(***************************************************************************)
(* C19.  When every generation request succeeds and every reply is well    *)
(* formed, each of the five criteria, competency1 included, is analysed    *)
(* and scored: none is recorded with the failure placeholder.              *)
(***************************************************************************)
PedidosDe(c) == { i \in 1..Len(pedidos) : pedidos[i].comp = Competencias[c] }

\* no request that was issued raised or returned a malformed reply
NenhumPedidoFalhou ==
    \A c \in 1..NumCompetencias : excecoes[c] # {} => PedidosDe(c) = {}

C19_SemFalhasTodasAnalisadas ==
    (fase = "fim" /\ NenhumPedidoFalhou) =>
        \A c \in 1..NumCompetencias :
            /\ resultados.analises_detalhadas[Competencias[c]] # ErroNaAnalise
            /\ resultados.justificativas[Competencias[c]] # NaoFoiPossivel

(***************************************************************************)
(* C20.  For confirmed records as the parser and the revision stage        *)
(* produce them (explanation under 'explicação'), the category counts of   *)
(* atribuir_nota_competency1 reflect the keyword matches on that           *)
(* explanation: each record whose explanation contains a keyword of a      *)
(* category raises that category's count by one, so that enough such       *)
(* records lower the baseline below 200.                                   *)
(***************************************************************************)
ExplicacaoDe(erro) ==
    IF K_explicacao \in DOMAIN erro THEN LowerSeq(erro[K_explicacao]) ELSE <<>>

TemPalavra(texto, palavras) ==
    \E i \in 1..Len(texto) : \E q \in palavras : q \in PalavrasEm(texto[i])

NumeroCom(erros, palavras) ==
    Cardinality({ i \in 1..Len(erros) : TemPalavra(ExplicacaoDe(erros[i]), palavras) })

ContagemPelaExplicacao(erros) ==
    [sintaxe |-> NumeroCom(erros, {"sintax", "estrutura"}),
     ortografia |-> NumeroCom(erros, {"ortograf", "accent", "escrita"}),
     concordancia |-> NumeroCom(erros, {"concord", "verbal", "nominal"}),
     pontuacao |-> NumeroCom(erros, {"pontu"}),
     crase |-> NumeroCom(erros, {"crase"}),
     registro |-> NumeroCom(erros, {"coloquial", "registro", "informal"})]

\* the records are as the parser and the revision stage write them
ErrosDoPipeline(erros) ==
    \A i \in 1..Len(erros) :
        K_explicacao \in DOMAIN erros[i] /\ K_explicacao_sem_acento \notin DOMAIN erros[i]

\* on a failed score request the score returned is the baseline itself
C20_ContagemPelaExplicacao ==
    (fn = "atribuir_nota_competency1" /\ entrada.pedido.falha /\ ErrosDoPipeline(entrada.erros))
        => saida.nota = nota_base(ContagemPelaExplicacao(entrada.erros))

(***************************************************************************)
(* The baseline of criterion 1 over the counts by category: the counts     *)
(* start at zero and the loop over the errors adds one to a category at a  *)
(* time; the table is read on the counts reached.                          *)
(***************************************************************************)
MaxContagem == 4

Categorias == {"sintaxe", "ortografia", "concordancia", "pontuacao", "crase", "registro"}

ContagemZero == [k \in Categorias |-> 0]

InitBase ==
    /\ fn = "nota_base"
    /\ entrada = ContagemZero
    /\ saida = nota_base(ContagemZero)
    /\ PipelineParado

\* contagem_erros[k] += 1, and the table on the counts so far
ContarErro ==
    \E k \in Categorias :
        /\ entrada[k] < MaxContagem
        /\ entrada' = [entrada EXCEPT ![k] = @ + 1]
        /\ saida' = nota_base(entrada')
        /\ UNCHANGED <<fn, pvars>>

NextBase == ContarErro

SpecBase == InitBase /\ [][NextBase]_vars

(***************************************************************************)
(* C21: for every vector of category counts the baseline of criterion 1 is *)
(* the first matching row: 200 iff total <= 3, syntax <= 1, register = 0   *)
(* and spelling <= 1; otherwise 160 iff total <= 5, syntax <= 2 and        *)
(* register <= 1; otherwise 120 iff total <= 8 and syntax <= 3; otherwise  *)
(* 80 iff total <= 12; otherwise 40 iff total <= 15; otherwise 0.  The     *)
(* result is always a rung.                                                *)
(***************************************************************************)
TotalDaEntrada ==
    entrada.sintaxe + entrada.ortografia + entrada.concordancia
        + entrada.pontuacao + entrada.crase + entrada.registro

Linha200 ==
    TotalDaEntrada <= 3 /\ entrada.sintaxe <= 1 /\ entrada.registro = 0
        /\ entrada.ortografia <= 1
Linha160 == TotalDaEntrada <= 5 /\ entrada.sintaxe <= 2 /\ entrada.registro <= 1
Linha120 == TotalDaEntrada <= 8 /\ entrada.sintaxe <= 3
Linha80 == TotalDaEntrada <= 12
Linha40 == TotalDaEntrada <= 15

C21_PrimeiraLinhaDaTabela ==
    fn = "nota_base" =>
        /\ saida \in NotasValidas
        /\ saida = 200 <=> Linha200
        /\ saida = 160 <=> (~Linha200 /\ Linha160)
        /\ saida = 120 <=> (~Linha200 /\ ~Linha160 /\ Linha120)
        /\ saida = 80 <=> (~Linha200 /\ ~Linha160 /\ ~Linha120 /\ Linha80)
        /\ saida = 40 <=>
               (~Linha200 /\ ~Linha160 /\ ~Linha120 /\ ~Linha80 /\ Linha40)
        /\ saida = 0 <=>
               (~Linha200 /\ ~Linha160 /\ ~Linha120 /\ ~Linha80 /\ ~Linha40)

\* five errors, two of them of register: the 160 row fails on the register alone
C21_Witness ==
    /\ fn = "nota_base"
    /\ TotalDaEntrada = 5
    /\ entrada.sintaxe <= 2
    /\ entrada.registro = 2
    /\ saida = 120

(***************************************************************************)
(* C29: the baseline of criterion 1 is monotone: one more error in any     *)
(* single category never yields a higher baseline.                         *)
(***************************************************************************)
C29_BaseMonotona == [][fn = "nota_base" => saida' <= saida]_vars

\* the counts have walked down every rung, past fifteen errors
C29_Witness == fn = "nota_base" /\ TotalDaEntrada > 15 /\ saida = 0

(***************************************************************************)
(* C22: in criteria 2 to 5 a returned integer score that is not a rung is  *)
(* replaced by a rung at minimal absolute distance from it (either         *)
(* neighbour on a tie such as 20, 60 or 100); a value below 0 becomes 0    *)
(* and a value above 200 becomes 200; the replacement is noted in the      *)
(* justification.  A score that already is a rung is returned unchanged    *)
(* with no note, and no other correction is applied.                       *)
(***************************************************************************)
C22_DegrauMaisProximo ==
    (fn = "atribuir_nota_competencyN" /\ ~PedidoFalhou) =>
        IF NotaDevolvida \in NotasValidas
        THEN /\ saida.nota = NotaDevolvida
             /\ ~TerminaEm(saida.justificativa, NotaAjustadaProximo)
        ELSE /\ saida.nota \in DegrausMaisProximos(NotaDevolvida)
             /\ NotaDevolvida < 0 => saida.nota = 0
             /\ NotaDevolvida > 200 => saida.nota = 200
             /\ TerminaEm(saida.justificativa, NotaAjustadaProximo)

\* a tie between two rungs, resolved to the upper neighbour
C22_Witness ==
    /\ fn = "atribuir_nota_competencyN"
    /\ ~PedidoFalhou
    /\ NotaDevolvida = 60
    /\ saida.nota = 80
    /\ TerminaEm(saida.justificativa, NotaAjustadaProximo)

(***************************************************************************)
(* C23 (as stated).  For a record of criterion 1 about 'crase' whose       *)
(* revision is otherwise acceptable, the final gate of the revision stage  *)
(* is the rule of the classifier: the record is confirmed exactly when the *)
(* revised explanation has a definite-sense signal (definite article,      *)
(* definite sense or fixed locution) and a government signal (government,  *)
(* preposition or feminine article).                                       *)
(***************************************************************************)
SobreCrase(h) == Menciona(TextoDe(h.erro, K_descricao), {"crase"})

\* everything the revision asks of the reply, the gate on 'crase' apart
RevisaoAceitavel(h) ==
    /\ RevisaoCompleta(h)
    /\ {"Sugestão Revisada", "Considerações ENEM"} \subseteq DOMAIN CamposDe(h)

SinaisDoClassificador(h) ==
    LET e == LowerSeq(CamposDe(h)["Explicação Revisada"])
    IN  /\ Menciona(e, {"artigo definido", "sentido definido", "locução"})
        /\ Menciona(e, {"regência", "preposição", "artigo feminino"})

C23_PortaoIgualAoClassificador ==
    \A i \in 1..Len(pedidos) :
        (/\ fase \in {"laco", "devolvido"} /\ entrada.comp = 1
         /\ SobreCrase(pedidos[i]) /\ RevisaoAceitavel(pedidos[i]))
            => (pedidos[i].aceito <=> SinaisDoClassificador(pedidos[i]))

(***************************************************************************)
(* C23 (amended).  For such a record the final gate is a rule of its own,  *)
(* narrower than the classifier's: the record is confirmed exactly when    *)
(* the revised explanation contains both 'artigo definido' and             *)
(* 'preposição' and the revised syntactic analysis contains one of         *)
(* 'função sintática', 'regência' and 'complemento'.                       *)
(***************************************************************************)
SinaisDoPortao(h) ==
    /\ Menciona(LowerSeq(CamposDe(h)["Explicação Revisada"]), {"artigo definido"})
    /\ Menciona(LowerSeq(CamposDe(h)["Explicação Revisada"]), {"preposição"})
    /\ Menciona(LowerSeq(CamposDe(h)["Análise Sintática"]),
                {"função sintática", "regência", "complemento"})

C23_PortaoProprioDaRevisao ==
    \A i \in 1..Len(pedidos) :
        (/\ fase \in {"laco", "devolvido"} /\ entrada.comp = 1
         /\ SobreCrase(pedidos[i]) /\ RevisaoAceitavel(pedidos[i]))
            => (pedidos[i].aceito <=> SinaisDoPortao(pedidos[i]))

\* one record refused with the signals of the classifier, one refused for its
\* syntactic analysis, the batch returned
C23_Witness ==
    /\ fase = "devolvido" /\ entrada.comp = 1
    /\ Len(pedidos) = 2
    /\ \A i \in 1..2 : SobreCrase(pedidos[i]) /\ RevisaoAceitavel(pedidos[i])
                         /\ ~pedidos[i].aceito /\ SinaisDoClassificador(pedidos[i])
    /\ Menciona(LowerSeq(CamposDe(pedidos[1])["Explicação Revisada"]), {"locução"})
    /\ Menciona(LowerSeq(CamposDe(pedidos[2])["Explicação Revisada"]), {"artigo definido"})

(***************************************************************************)
(* C25: for each candidate of criterion 1 the context written in the       *)
(* revision request is the slice of the essay from max(0, i - 100) to      *)
(* min(len, i + len(excerpt) + 100), i being the first position of the     *)
(* excerpt in the essay: it contains the excerpt, lies inside the essay    *)
(* and adds at most 100 characters on each side.  When the excerpt does    *)
(* not occur in the essay the context is the excerpt itself.               *)
(***************************************************************************)
PrimeiraOcorrencia(r, t) ==
    LET ocorrencias == { i \in 1..(Len(r) + 1) : OcorreEm(r, t, i) }
    IN  CHOOSE i \in ocorrencias : \A j \in ocorrencias : i <= j

\* c is the slice of r that runs from antes characters before the first
\* occurrence of t to depois characters after it
FatiaEmTorno(c, r, t, antes, depois) ==
    LET i == PrimeiraOcorrencia(r, t)
    IN  /\ i - antes >= 1
        /\ i + Len(t) - 1 + depois <= Len(r)
        /\ c = SubSeq(r, i - antes, i + Len(t) - 1 + depois)

C25_ContextoEmTornoDoTrecho ==
    \A k \in 1..Len(pedidos) :
        (fase \in {"laco", "devolvido"} /\ entrada.comp = 1) =>
            LET t == Get(pedidos[k].erro, K_trecho, <<>>)
                r == entrada.redacao
                c == pedidos[k].contexto
            IN  IF Ocorre(r, t)
                THEN LET i == PrimeiraOcorrencia(r, t)
                         antes == IF i - 1 < 100 THEN i - 1 ELSE 100
                         resto == Len(r) - (i + Len(t) - 1)
                         depois == IF resto < 100 THEN resto ELSE 100
                     IN  /\ FatiaEmTorno(c, r, t, antes, depois)
                         /\ Ocorre(c, t)
                         /\ Len(c) <= Len(t) + 200
                ELSE c = t

\* an excerpt with 100 characters on each side, its second occurrence left
\* out, and an excerpt that the essay does not contain
C25_Witness ==
    /\ fase = "devolvido" /\ entrada.comp = 1
    /\ Len(pedidos) = 2
    /\ Len(pedidos[1].contexto) = 201
    /\ Len(entrada.redacao) > 201
    /\ ~Ocorre(entrada.redacao, pedidos[2].erro[K_trecho])
    /\ pedidos[2].contexto = pedidos[2].erro[K_trecho]

(***************************************************************************)
(* C24: revising a batch of candidates never mutates its input: after the  *)
(* call every record of the list received is what it was, and the records  *)
(* of the confirmed list are separate copies, which carry the revision     *)
(* fields.                                                                 *)
(***************************************************************************)
C24_EntradaNaoMutada ==
    fase \in {"laco", "devolvido"} =>
        /\ \A i \in 1..Len(entrada.erros) : em_curso.objetos[i] = entrada.erros[i]
        /\ Len(em_curso.refs) = Len(em_curso.revisados)
        /\ \A k \in 1..Len(em_curso.refs) :
              /\ em_curso.refs[k] \notin 1..Len(entrada.erros)
              /\ \A j \in 1..Len(em_curso.refs) :
                    em_curso.refs[j] = em_curso.refs[k] => j = k
              /\ em_curso.objetos[em_curso.refs[k]] = em_curso.revisados[k]
              /\ K_consideracoes \in DOMAIN em_curso.revisados[k]

\* both records of the batch confirmed, and neither of them carries a
\* revision field after the return
C24_Witness ==
    /\ fase = "devolvido"
    /\ Len(entrada.erros) = 2
    /\ Len(saida) = 2
    /\ \A i \in 1..2 : K_consideracoes \notin DOMAIN em_curso.objetos[i]
    /\ \A k \in 1..2 : em_curso.objetos[em_curso.refs[k]] = saida[k]

(***************************************************************************)
(* analisar_competency2..5 on a reply: the narrative, with the blocks      *)
(* removed, and the records the parser reads in the same reply.            *)
(***************************************************************************)
InitAnalise == fn = "idle" /\ entrada \in TextosErro /\ saida = <<>> /\ PipelineParado

LimparAnalise ==
    /\ fn = "idle"
    /\ fn' = "analisar_competency"
    /\ saida' = [analise |-> analise_geral(entrada),
                 erros_identificados |-> extrair_erros_do_resultado(entrada)]
    /\ UNCHANGED <<entrada, pvars>>

NextAnalise == LimparAnalise

SpecAnalise == InitAnalise /\ [][NextAnalise]_vars

(***************************************************************************)
(* C26: for any analysis reply, the regions stripped from the narrative    *)
(* are exactly the regions the parser treats as blocks; in particular no   *)
(* block from which the parser extracts a record leaves any of its text in *)
(* the cleaned narrative.                                                  *)
(***************************************************************************)
\* the position, in the reply as one string, of token j of line i
RECURSIVE PosicaoNoTexto(_, _, _)
PosicaoNoTexto(texto, i, j) ==
    IF i = 1 THEN j ELSE Len(texto[1]) + 1 + PosicaoNoTexto(Tail(texto), i - 1, j)

\* the regions the parser treats as blocks: from the ERRO that opens the
\* block to the FIM_ERRO that closes it
RegiaoDoBloco(texto, m) ==
    [de |-> PosicaoNoTexto(texto, m.abre, Len(texto[m.abre])),
     ate |-> PosicaoNoTexto(texto, m.fecha, 1)]

BlocosDoParser(texto) ==
    LET ms == FindAllBlocos(texto, 1, 1) IN { ms[k] : k \in 1..Len(ms) }

\* the regions that ERRO\n.*?FIM_ERRO matches in s, from position p on
RECURSIVE RegioesRemovidas(_, _)
RegioesRemovidas(s, p) ==
    IF p >= Len(s) THEN {}
    ELSE IF /\ s[p] \in {"ERRO", "FIM_ERRO"}
            /\ s[p + 1] = NL
            /\ \E q \in (p + 2)..Len(s) : s[q] = "FIM_ERRO"
    THEN LET q == CHOOSE q \in (p + 2)..Len(s) :
                      s[q] = "FIM_ERRO" /\ \A k \in (p + 2)..(q - 1) : s[k] # "FIM_ERRO"
         IN  {[de |-> p, ate |-> q]} \cup RegioesRemovidas(s, q + 1)
    ELSE RegioesRemovidas(s, p + 1)

\* s without the regions rs; of a region that starts inside the token
\* FIM_ERRO the characters FIM_ stay
RECURSIVE SemRegioes(_, _, _)
SemRegioes(s, rs, p) ==
    IF p > Len(s) THEN <<>>
    ELSE IF \E r \in rs : r.de = p
    THEN LET r == CHOOSE r \in rs : r.de = p
         IN  (IF s[p] = "FIM_ERRO" THEN <<"FIM_">> ELSE <<>>) \o SemRegioes(s, rs, r.ate + 1)
    ELSE <<s[p]>> \o SemRegioes(s, rs, p + 1)

\* the narrative is the reply without the regions removed
NarrativaSemRegioes ==
    fn = "analisar_competency" =>
        saida.analise =
            RStripWS(LStripWS(SemRegioes(ToFlat(entrada),
                                         RegioesRemovidas(ToFlat(entrada), 1), 1)))

\* every block from which the parser extracts a record lies inside a region
\* removed from the narrative
BlocosComRegistroRemovidos ==
    fn = "analisar_competency" =>
        \A m \in BlocosDoParser(entrada) :
            Aceito(ErroDoBloco(entrada, m)) =>
                \E r \in RegioesRemovidas(ToFlat(entrada), 1) :
                    /\ r.de <= RegiaoDoBloco(entrada, m).de
                    /\ RegiaoDoBloco(entrada, m).ate <= r.ate
C26_RegioesRemovidasSaoOsBlocos ==
    fn = "analisar_competency" =>
        LET removidas == RegioesRemovidas(ToFlat(entrada), 1)
        IN  /\ NarrativaSemRegioes
            /\ removidas = { RegiaoDoBloco(entrada, m) : m \in BlocosDoParser(entrada) }
            /\ BlocosComRegistroRemovidos

(***************************************************************************)
(* The block parser on one block with both fields, the value of the        *)
(* excerpt field drawn from quotes, letters and blanks.                    *)
(***************************************************************************)
MaxValor == 4

ValoresDeTrecho ==
    UNION { [1..n -> {Aspas, "T", " "}] : n \in 0..MaxValor }

BlocoComTrecho(v) ==
    << <<"ERRO">>, <<"Descrição", ":", " ", "D">>, <<"Trecho", ":">> \o v, <<"FIM_ERRO">> >>

InitTrecho ==
    /\ fn = "idle"
    /\ entrada \in { BlocoComTrecho(v) : v \in ValoresDeTrecho }
    /\ saida = <<>>
    /\ PipelineParado

NextTrecho == ExtrairErros

SpecTrecho == InitTrecho /\ [][NextTrecho]_vars

(***************************************************************************)
(* C27 (as stated).  The excerpt value extracted from a block has exactly  *)
(* one pair of surrounding double quotes removed; quote characters beyond  *)
(* the outermost pair, and an unpaired quote at one end only, are          *)
(* preserved.                                                              *)
(***************************************************************************)
\* the value written after 'Trecho:', without the blanks around it
ValorEscrito ==
    LET v == SubSeq(entrada[3], 3, Len(entrada[3]))
        nb == { i \in 1..Len(v) : v[i] # " " }
    IN  IF nb = {} THEN <<>>
        ELSE SubSeq(v, CHOOSE i \in nb : \A j \in nb : i <= j,
                       CHOOSE i \in nb : \A j \in nb : i >= j)

EntreAspas(v) == Len(v) >= 2 /\ v[1] = Aspas /\ v[Len(v)] = Aspas

C27_UmParDeAspasRemovido ==
    fn = "extrair_erros_do_resultado" =>
        /\ Len(saida) = 1
        /\ saida[1][K_trecho] =
              IF EntreAspas(ValorEscrito)
              THEN SubSeq(ValorEscrito, 2, Len(ValorEscrito) - 1)
              ELSE ValorEscrito

(***************************************************************************)
(* C27 (amended).  The excerpt value extracted from a block has every      *)
(* double quote at its start and at its end removed, paired or not; the    *)
(* quote characters inside it are preserved.                               *)
(***************************************************************************)
C27_TodasAsAspasDasPontasRemovidas ==
    fn = "extrair_erros_do_resultado" =>
        /\ Len(saida) = 1
        /\ LET t == saida[1][K_trecho]
           IN  /\ t # <<>> => (t[1] # Aspas /\ t[Len(t)] # Aspas)
               /\ \E a, b \in 0..Len(ValorEscrito) :
                     ValorEscrito = [i \in 1..a |-> Aspas] \o t \o [i \in 1..b |-> Aspas]

\* two quotes before the excerpt and one after it: all three removed
C27_Witness ==
    /\ fn = "extrair_erros_do_resultado"
    /\ ValorEscrito = <<Aspas, Aspas, "T", Aspas>>
    /\ saida[1][K_trecho] = <<"T">>

(***************************************************************************)
(* processar_redacao_completa against replies that carry two records, for  *)
(* the order of the requests: the analysis replies have no record or two,  *)
(* the score request raises or returns a rung.                             *)
(***************************************************************************)
RespostasAnaliseOrdem ==
    { << <<"N">> >>,
      << <<"N">>, <<"ERRO">>, <<"Descrição", ":", " ", "D">>,
         <<"Trecho", ":", " ", Aspas, "T", Aspas>>, <<"FIM_ERRO">>, <<"M">>,
         <<"ERRO">>, <<"Descrição", ":", " ", "E">>,
         <<"Trecho", ":", " ", Aspas, "U", Aspas>>, <<"FIM_ERRO">> >> }

PedidosNotaOrdem ==
    { [falha |-> TRUE, resposta |-> <<>>],
      [falha |-> FALSE, resposta |-> RespostaNotaDe(160)] }

\* variant: the records parsed are not revised
DepoisDaAnalise_SemRevisao(erros_identificados) == "nota"

\* the loop of revisar_erros_competency2..5 runs when there is a record
DepoisDaAnalise(erros_identificados) ==
    IF erros_identificados = <<>> THEN "nota" ELSE "revisao"

\* analisar_competency2..5: the analysis request returns
AnalisarRespostaOrdem ==
    /\ comp \in 2..NumCompetencias /\ fase = "analise"
    /\ \E r \in RespostasAnaliseOrdem :
          LET erros_identificados == extrair_erros_do_resultado(r)
          IN  /\ em_curso' = [analise |-> analise_geral(r),
                              registros |-> erros_identificados,
                              identificados |-> erros_identificados,
                              revisados |-> <<>>]
              /\ fase' = DepoisDaAnalise(erros_identificados)
    /\ pedidos' = Append(pedidos, Pedido(comp, "analise", 0))
    /\ UNCHANGED <<comp, resultados, excecoes, fvars>>

\* atribuir_nota_competency2..5 and the recording of the criterion's results
AtribuirNotaOrdem ==
    /\ fase = "nota"
    /\ \E p \in PedidosNotaOrdem :
          /\ resultados' = RegistrarResultado(resultados, Competencias[comp],
                               em_curso.analise, atribuir_nota_competencyN(p),
                               em_curso.revisados)
          /\ excecoes' = IF NotaLevantou(p)
                         THEN [excecoes EXCEPT ![comp] = @ \cup {"nota"}]
                         ELSE excecoes
    /\ pedidos' = Append(pedidos, Pedido(comp, "nota", 0))
    /\ Proxima(comp)
    /\ UNCHANGED fvars

NextOrdem ==
    \/ AnalisarCompetency1
    \/ AnalisarFalha
    \/ AnalisarRespostaOrdem
    \/ Revisar
    \/ AtribuirNotaOrdem
    \/ Totalizar

SpecOrdem == InitPipeline /\ [][NextOrdem]_vars

(***************************************************************************)
(* C28: within one pipeline run the generation requests are issued one at  *)
(* a time and each at most once, in this order: for each criterion in the  *)
(* fixed criterion order, its analysis request, then one revision request  *)
(* per parsed record in record order, then its score request.  No request  *)
(* of a later criterion is issued before the result or the failure of the  *)
(* earlier criterion has been recorded.                                    *)
(***************************************************************************)
NumeroDaCompetencia(nome) == CHOOSE c \in 1..NumCompetencias : Competencias[c] = nome

\* the place of a request in the order of the run
LugarDoPedido(p) ==
    <<NumeroDaCompetencia(p.comp),
      IF p.tipo = "analise" THEN 0 ELSE IF p.tipo = "revisao" THEN 1 ELSE 2,
      p.indice>>

Antes(a, b) ==
    \/ a[1] < b[1]
    \/ a[1] = b[1] /\ a[2] < b[2]
    \/ a[1] = b[1] /\ a[2] = b[2] /\ a[3] < b[3]

PedidosDaCompetencia(c, tipo) ==
    { i \in 1..Len(pedidos) : pedidos[i].comp = Competencias[c] /\ pedidos[i].tipo = tipo }

C28_PedidosEmOrdem ==
    fase \in {"analise", "revisao", "nota", "total", "fim"} =>
        \* in the order of the run, none twice
        /\ \A i, j \in 1..Len(pedidos) :
              i < j => Antes(LugarDoPedido(pedidos[i]), LugarDoPedido(pedidos[j]))
        \* a revision or a score only after the analysis of the criterion; the
        \* k-th revision request is for the k-th record
        /\ \A i \in 1..Len(pedidos) :
              LET c == NumeroDaCompetencia(pedidos[i].comp)
              IN  /\ pedidos[i].tipo # "analise" => PedidosDaCompetencia(c, "analise") # {}
                  /\ pedidos[i].tipo = "revisao" =>
                        pedidos[i].indice
                            = Cardinality({ j \in PedidosDaCompetencia(c, "revisao") : j <= i })
                  \* the earlier criteria have their result or failure recorded
                  /\ \A d \in 1..(c - 1) : Competencias[d] \in DOMAIN resultados.notas
        \* one revision request per parsed record, all of them before the score
        /\ fase = "revisao" =>
              /\ em_curso.identificados # <<>>
              /\ Cardinality(PedidosDaCompetencia(comp, "revisao"))
                    = Len(em_curso.registros) - Len(em_curso.identificados)
              /\ em_curso.identificados
                    = SubSeq(em_curso.registros,
                             Len(em_curso.registros) - Len(em_curso.identificados) + 1,
                             Len(em_curso.registros))
              /\ PedidosDaCompetencia(comp, "nota") = {}
        /\ fase = "nota" =>
              /\ Cardinality(PedidosDaCompetencia(comp, "revisao")) = Len(em_curso.registros)
              /\ PedidosDaCompetencia(comp, "nota") = {}
        \* nothing is requested for a criterion once it is recorded
        /\ \A c \in 1..NumCompetencias :
              (Competencias[c] \notin DOMAIN resultados.notas /\ c # comp) =>
                  \A i \in 1..Len(pedidos) : pedidos[i].comp # Competencias[c]

\* criteria 2 to 5 each with an analysis, two revisions and a score
C28_Witness ==
    /\ fase = "fim"
    /\ Len(pedidos) = 16
    /\ \A c \in 2..NumCompetencias :
          /\ Cardinality(PedidosDaCompetencia(c, "revisao")) = 2
          /\ Cardinality(PedidosDaCompetencia(c, "nota")) = 1

(***************************************************************************)
(* The tutoring pages: main (the sidebar and the routing), pagina_tutoria  *)
(* and the screen of each stage.  A step is one click and the script runs  *)
(* that follow it.  fase holds st.session_state.page, resultados the       *)
(* report when there is one, em_curso st.session_state.tutoria_estado      *)
(* (<<>> while the key is absent) and saida the screen the last run drew.  *)
(***************************************************************************)
MaxExercicios == 2

\* the keys of calcular_progresso_tutoria
Etapas == {"diagnostico", "plano_estudo", "exercicios", "feedback"}

SemEstado == <<>>

\* the state pagina_tutoria creates when the key is absent
EstadoInicialTutoria ==
    [etapa |-> "diagnostico", competencia_foco |-> "None", pontuacao |-> 0,
     historico |-> <<>>, plano_atual |-> "ausente", exercicio_atual |-> "ausente"]

\* json.loads of a reply of the service: with the keys the screens read, or
\* without them (a failed request gives the fixed dict, which has them)
RespostasJSON == {"completo", "incompleto"}

PontosDoFeedback == {0, 10}

\* the report a valid submission leaves in st.session_state.resultados
RelatorioComNotas(n) ==
    [ResultadosIniciais EXCEPT
        !.notas = [c \in { Competencias[i] : i \in 1..NumCompetencias } |-> n],
        !.nota_total = NumCompetencias * n]

\* variant: the next exercise ends the exercises
ProximoExercicio_Feedback(estado) == [estado EXCEPT !.etapa = "feedback"]

\* del st.session_state.tutoria_estado['exercicio_atual']
ProximoExercicio(estado) == [estado EXCEPT !.exercicio_atual = "ausente"]

\* the button of the screen of the stage, clicked
AposClique(estado, botao, escolhida, r, pontos) ==
    IF estado.etapa = "diagnostico" /\ botao = "Iniciar Plano de Estudos"
    THEN [estado EXCEPT !.etapa = "plano_estudo", !.competencia_foco = escolhida,
                        !.plano_atual = r]
    ELSE IF estado.etapa = "plano_estudo" /\ botao = "Começar Exercícios"
    THEN [estado EXCEPT !.etapa = "exercicios"]
    ELSE IF estado.etapa = "exercicios" /\ botao = "Verificar"
    THEN [estado EXCEPT !.pontuacao = @ + pontos, !.historico = Append(@, pontos)]
    ELSE IF estado.etapa = "exercicios" /\ botao = "Próximo Exercício"
    THEN ProximoExercicio(estado)
    ELSE IF estado.etapa = "feedback" /\ botao = "Concluir Tutoria"
    THEN EstadoInicialTutoria
    ELSE estado

\* a run of pagina_tutoria: the state is created when absent, and the screen
\* of the exercises generates an exercise when there is none
RodarTutoria(estado, r) ==
    LET e == IF estado = SemEstado THEN EstadoInicialTutoria ELSE estado
    IN  IF e.etapa = "exercicios" /\ e.exercicio_atual = "ausente"
        THEN [e EXCEPT !.exercicio_atual = r]
        ELSE e

\* the screen the run draws; a plan or an exercise without the keys read
\* raises, and main draws the error message and the restart button
TelaDe(estado) ==
    IF estado.etapa = "plano_estudo" /\ estado.plano_atual = "incompleto" THEN "erro"
    ELSE IF estado.etapa = "exercicios" /\ estado.exercicio_atual = "incompleto" THEN "erro"
    ELSE estado.etapa

BotoesDaTela(tela) ==
    IF tela = "diagnostico" THEN {"Iniciar Plano de Estudos"}
    ELSE IF tela = "plano_estudo" THEN {"Começar Exercícios"}
    ELSE IF tela = "exercicios" THEN {"Verificar", "Próximo Exercício"}
    ELSE IF tela = "feedback" THEN {"Concluir Tutoria"}
    ELSE {}

InitTutoria ==
    /\ fn = "main" /\ entrada = <<>>
    /\ fase = "envio"
    /\ saida = "envio"
    /\ resultados = <<>>
    /\ em_curso = SemEstado
    /\ comp = 0 /\ pedidos = <<>> /\ excecoes = <<>>

\* the submission page, with a valid submission: the report is stored
EnviarRedacao ==
    /\ fase = "envio" /\ saida = "envio"
    /\ \E n \in NotasValidas : resultados' = RelatorioComNotas(n)
    /\ UNCHANGED <<fn, entrada, saida, comp, fase, em_curso, pedidos, excecoes>>

\* main: a button of the sidebar, and the page it leads to
Navegar ==
    \E destino \in {"envio", "resultado", "tutoria"}, r \in RespostasJSON :
        /\ destino # "envio" => resultados # <<>>
        /\ fase' = destino
        /\ em_curso' = IF destino = "tutoria" THEN RodarTutoria(em_curso, r) ELSE em_curso
        /\ saida' = IF destino = "tutoria" THEN TelaDe(em_curso') ELSE destino
        /\ UNCHANGED <<fn, entrada, comp, resultados, pedidos, excecoes>>

\* pagina_tutoria: a button of the screen of the stage, and the run after it
pagina_tutoria ==
    /\ fase = "tutoria" /\ saida \in Etapas
    /\ \E botao \in BotoesDaTela(saida), r \in RespostasJSON, pontos \in PontosDoFeedback,
          escolhida \in { Competencias[i] : i \in 1..NumCompetencias } :
          /\ botao = "Verificar" => Len(em_curso.historico) < MaxExercicios
          /\ em_curso' = RodarTutoria(AposClique(em_curso, botao, escolhida, r, pontos), r)
          /\ saida' = TelaDe(em_curso')
    /\ UNCHANGED <<fn, entrada, comp, fase, resultados, pedidos, excecoes>>

\* main: the restart button under the error message deletes the session
ReiniciarAplicacao ==
    /\ saida = "erro"
    /\ fase' = "envio"
    /\ saida' = "envio"
    /\ resultados' = <<>>
    /\ em_curso' = SemEstado
    /\ UNCHANGED <<fn, entrada, comp, pedidos, excecoes>>

NextTutoria == EnviarRedacao \/ Navegar \/ pagina_tutoria \/ ReiniciarAplicacao

SpecTutoria == InitTutoria /\ [][NextTutoria]_vars

(***************************************************************************)
(* C30: the tutoring stage only ever moves diagnostico -> plano_estudo ->  *)
(* exercicios; nothing sets the stage to 'feedback', so the final-feedback *)
(* screen and its 'conclude tutoring' reset are never reached.             *)
(***************************************************************************)
EtapaNuncaFeedback ==
    /\ saida # "feedback"
    /\ em_curso # SemEstado => em_curso.etapa \in {"diagnostico", "plano_estudo", "exercicios"}

\* a step that changes the stage of the tutoring state takes it one stage on
EtapaSoAvanca ==
    (em_curso # SemEstado /\ em_curso' # SemEstado /\ em_curso'.etapa # em_curso.etapa) =>
        <<em_curso.etapa, em_curso'.etapa>>
            \in {<<"diagnostico", "plano_estudo">>, <<"plano_estudo", "exercicios">>}

C30_EtapaSoAvancaSemFeedback == [](fn = "main" => EtapaNuncaFeedback) /\ [][fn = "main" => EtapaSoAvanca]_vars

\* the last stage reached, with exercises answered and a second exercise
C30_Witness ==
    /\ fn = "main" /\ fase = "tutoria" /\ saida = "exercicios"
    /\ em_curso.etapa = "exercicios"
    /\ Len(em_curso.historico) = MaxExercicios
    /\ em_curso.pontuacao > 0
====
